---- MODULE Spec2Model ----
(***************************************************************************)
(* Script value & bytecode runtime of the playground repository:          *)
(*   - ScriptVal constructors / accessors   (script/val.h, val.c)         *)
(*   - value arithmetic                     (val.c)                       *)
(*   - argument binder and panic raise      (args.c, panic.c)             *)
(*   - bytecode evaluator                   (prog.h; prog.c is not part   *)
(*     of the source tree, it is modelled from the specification)         *)
(*                                                                         *)
(* Integers are scaled: an i32 is modelled as a two's complement integer  *)
(* of I32Bits bits, a u16 as an unsigned integer of I32Bits \div 2 bits   *)
(* and an i64 as an integer wide enough to hold every intermediate (no    *)
(* 64 bit intermediate of the code can overflow).                         *)
(***************************************************************************)
EXTENDS Integers, Sequences, FiniteSets, TLC

VARIABLES
  va, vb,      \* SpecVal: the operands of the value operation
  vop,         \* SpecVal: the operation applied ("" before it is applied)
  vres,        \* SpecVal: the outcome of the operation
  call,        \* SpecArg: the ScriptBinderCall of the native function
  afn,         \* SpecArg: the script_arg_* function applied ("" before it is applied)
  ain,         \* SpecArg: the parameters it was applied with
  ares,        \* SpecArg: its outcome: the handler and the return value
  ev,          \* Spec: the evaluations: program, position, registers, memory, result
  bindCtx      \* Spec: the context of the binder (bindCtx) the native functions share

vars == <<va, vb, vop, vres, call, afn, ain, ares, ev, bindCtx>>

evalVars == <<ev, bindCtx>>

valVars == <<va, vb, vop, vres>>

argVars == <<call, afn, ain, ares>>

---------------------------------------------------------------------------
(* Integer widths. *)

I32Bits == 4

U16Bits == I32Bits \div 2

i32_max == 2 ^ (I32Bits - 1) - 1

i32_min == -(2 ^ (I32Bits - 1))

u16_max == 2 ^ U16Bits - 1

\* Width of an id payload (u56, scaled) and of the u64 it is built from (one
\* tag byte wider, scaled to one bit).
IdBits == 2

U64Bits == IdBits + 1

U64 == 0 .. (2 ^ U64Bits - 1)

I32 == i32_min .. i32_max

U16 == 0 .. u16_max

\* Conversion of a wider integer to i32, '(i32)x': keeps the low I32Bits bits.
CastI32(x) == ((x - i32_min) % (2 ^ I32Bits)) + i32_min

\* Conversion of an integer to u16, '(u16)x': keeps the low U16Bits bits.
CastU16(x) == x % (2 ^ U16Bits)

\* C division truncates towards zero.
TruncDiv(a, b) ==
  IF (a >= 0) = (b > 0)
    THEN (IF a >= 0 THEN a ELSE -a) \div (IF b >= 0 THEN b ELSE -b)
    ELSE -((IF a >= 0 THEN a ELSE -a) \div (IF b >= 0 THEN b ELSE -b))

\* C remainder, has the sign of the dividend.
TruncMod(a, b) == a - b * TruncDiv(a, b)

---------------------------------------------------------------------------
(* ScriptType and ScriptMask. *)

ScriptType_Null == 0

ScriptType_Num == 1

ScriptType_NumRange == 2

ScriptType_Bool == 3

ScriptType_Str == 4

ScriptType_Id == 5

ScriptType_Count == 6

ScriptTypes == ScriptType_Null .. (ScriptType_Count - 1)

script_mask(type) == 2 ^ type

script_mask_null == script_mask(ScriptType_Null)

script_mask_num == script_mask(ScriptType_Num)

script_mask_num_range == script_mask(ScriptType_NumRange)

script_mask_bool == script_mask(ScriptType_Bool)

script_mask_str == script_mask(ScriptType_Str)

script_mask_id == script_mask(ScriptType_Id)

\* The union of two masks with disjoint bits, 'a | b'.
MaskOr(a, b) == a + b

---------------------------------------------------------------------------
(* ScriptVal: the tag byte (type) and the payload bytes.  'p' is the       *)
(* payload in bytes 0..3 (for an id: bytes 0..6), 'e' is the u16 in bytes  *)
(* 4..5.  Payload bytes a type does not use are kept zero.                 *)

val_type(value) == value.type

val_type_check(v, mask) == (mask \div (2 ^ val_type(v))) % 2 # 0

val_null == [type |-> ScriptType_Null, p |-> 0, e |-> 0]

val_bool(value) == [type |-> ScriptType_Bool, p |-> IF value THEN 1 ELSE 0, e |-> 0]

val_num(value) == [type |-> ScriptType_Num, p |-> value, e |-> 0]

val_num_range(base, extent) == [type |-> ScriptType_NumRange, p |-> base, e |-> extent]

val_str(value) == [type |-> ScriptType_Str, p |-> value, e |-> 0]

\* The u64 is stored whole and its top byte then overwritten by the tag: the
\* low IdBits bits remain.
val_id(value) == [type |-> ScriptType_Id, p |-> value % (2 ^ IdBits), e |-> 0]

val_as_num(value) == value.p

val_as_num_range_base(value) == value.p

val_as_num_range_extent(value) == value.e

val_as_bool(value) == value.p # 0

val_as_str(value) == value.p

val_as_id(value) == value.p % (2 ^ IdBits)

\* The outcome of a call that does not return: a failed diag_assert, or a
\* trapping division.
Crashed == [type |-> ScriptType_Count, p |-> 0, e |-> 0]

---------------------------------------------------------------------------
(* Undefined behaviour.  A build resolves it one way or the other; the     *)
(* operations take the resolution 'ub' as a parameter and the actions      *)
(* choose it nondeterministically.                                         *)
(*   ub.ovf    an overflowing i32 + - : "wrap" (32 bit register) or        *)
(*             "wide" (computed in the 64 bit register it is widened to)   *)
(*   ub.div    a division by zero, or i32_min % -1: "trap" or "soft"       *)
(*             (no trap: the quotient is 0)                                *)
(*   ub.assert diag_assert compiled in (TRUE) or out (FALSE)               *)

UB == [ovf : {"wrap", "wide"}, div : {"trap", "soft"}, assert : BOOLEAN]

\* i32 'a + b' and 'a - b' widened to i64 afterwards.
AddI32(a, b, ub) ==
  IF a + b \in I32 \/ ub.ovf = "wide" THEN a + b ELSE CastI32(a + b)

SubI32(a, b, ub) ==
  IF a - b \in I32 \/ ub.ovf = "wide" THEN a - b ELSE CastI32(a - b)

---------------------------------------------------------------------------
(* val.c *)

script_truthy_null_is_true(value) ==
  CASE val_type(value) = ScriptType_Null -> TRUE
    [] val_type(value) = ScriptType_Bool -> val_as_bool(value)
    [] OTHER -> TRUE

script_truthy(value) ==
  CASE val_type(value) = ScriptType_Null -> FALSE
    [] val_type(value) = ScriptType_Bool -> val_as_bool(value)
    [] OTHER -> TRUE

script_falsy_zero_too(value) ==
  \/ ~script_truthy(value)
  \/ (val_type(value) = ScriptType_Num /\ val_as_num(value) = 0)

script_falsy(value) == ~script_truthy(value)

val_clamp_to_i32(val) ==
  IF val <= i32_min THEN i32_min
  ELSE IF val >= i32_max THEN i32_max
  ELSE val

script_num_range_from_to(min, max, ub) ==
  LET lo == IF min > max THEN max ELSE min
      hi == IF min > max THEN min ELSE max
      extent == SubI32(hi, lo, ub)
  IN  IF extent < 0 /\ ub.assert
        THEN Crashed
        ELSE val_num_range(lo, IF extent >= u16_max THEN u16_max ELSE CastU16(extent))

script_id_or_null(id) == IF id # 0 THEN val_id(id) ELSE val_null

script_val_valid(value) ==
  LET type == val_type(value)
  IN  IF type >= ScriptType_Count THEN FALSE
      ELSE CASE type \in {ScriptType_Null, ScriptType_Num, ScriptType_NumRange,
                          ScriptType_Str} -> TRUE
             [] type = ScriptType_Id -> val_as_id(value) # 0
             [] type = ScriptType_Bool -> value.p < 2

script_type(value) == val_type(value)

script_get_num_unchecked(value, fallback) == val_as_num(value)

script_get_num(value, fallback) ==
  IF val_type(value) = ScriptType_Num THEN val_as_num(value) ELSE fallback

script_get_num_range_base(value, fallback) ==
  IF val_type(value) = ScriptType_NumRange THEN val_as_num_range_base(value) ELSE fallback

script_get_num_range_extent(value, fallback) ==
  IF val_type(value) = ScriptType_NumRange THEN val_as_num_range_extent(value) ELSE fallback

script_get_num_range_min(value, fallback) ==
  IF val_type(value) = ScriptType_NumRange THEN val_as_num_range_base(value) ELSE fallback

script_get_num_range_max(value, fallback) ==
  IF val_type(value) # ScriptType_NumRange THEN fallback
  ELSE LET max == val_as_num_range_base(value) + val_as_num_range_extent(value)
       IN  IF max >= i32_max THEN i32_max ELSE CastI32(max)

script_get_bool(value, fallback) ==
  IF val_type(value) = ScriptType_Bool THEN val_as_bool(value) ELSE fallback

script_get_str(value, fallback) ==
  IF val_type(value) = ScriptType_Str THEN val_as_str(value) ELSE fallback

script_get_id(value, fallback) ==
  IF val_type(value) = ScriptType_Id THEN val_as_id(value) ELSE fallback

script_val_equal(a, b) ==
  IF val_type(a) # val_type(b) THEN FALSE
  ELSE CASE val_type(a) = ScriptType_Null -> TRUE
         [] val_type(a) = ScriptType_Num -> val_as_num(a) = val_as_num(b)
         [] val_type(a) = ScriptType_NumRange ->
              /\ val_as_num_range_base(a) = val_as_num_range_base(b)
              /\ val_as_num_range_extent(a) = val_as_num_range_extent(b)
         [] val_type(a) = ScriptType_Bool -> val_as_bool(a) = val_as_bool(b)
         [] val_type(a) = ScriptType_Str -> val_as_str(a) = val_as_str(b)
         [] val_type(a) = ScriptType_Id -> val_as_id(a) = val_as_id(b)

script_val_less_orders_tags(a, b) ==
  IF val_type(a) # val_type(b) THEN val_type(a) < val_type(b)
  ELSE CASE val_type(a) \in {ScriptType_Null, ScriptType_Str, ScriptType_Id} -> FALSE
         [] val_type(a) = ScriptType_Num -> val_as_num(a) < val_as_num(b)
         [] val_type(a) = ScriptType_NumRange ->
              LET aMin == val_as_num_range_base(a)
                  bMin == val_as_num_range_base(b)
                  aMax == aMin + val_as_num_range_extent(a)
                  bMax == bMin + val_as_num_range_extent(b)
              IN  aMin < bMin /\ aMax < bMax
         [] val_type(a) = ScriptType_Bool -> ~val_as_bool(a) /\ val_as_bool(b)

script_val_less(a, b) ==
  IF val_type(a) # val_type(b) THEN FALSE
  ELSE CASE val_type(a) \in {ScriptType_Null, ScriptType_Str, ScriptType_Id} -> FALSE
         [] val_type(a) = ScriptType_Num -> val_as_num(a) < val_as_num(b)
         [] val_type(a) = ScriptType_NumRange ->
              LET aMin == val_as_num_range_base(a)
                  bMin == val_as_num_range_base(b)
                  aMax == aMin + val_as_num_range_extent(a)
                  bMax == bMin + val_as_num_range_extent(b)
              IN  aMin < bMin /\ aMax < bMax
         [] val_type(a) = ScriptType_Bool -> ~val_as_bool(a) /\ val_as_bool(b)

script_val_greater(a, b) ==
  IF val_type(a) # val_type(b) THEN FALSE
  ELSE CASE val_type(a) \in {ScriptType_Null, ScriptType_Str, ScriptType_Id} -> FALSE
         [] val_type(a) = ScriptType_Num -> val_as_num(a) > val_as_num(b)
         [] val_type(a) = ScriptType_NumRange ->
              LET aMin == val_as_num_range_base(a)
                  bMin == val_as_num_range_base(b)
                  aMax == aMin + val_as_num_range_extent(a)
                  bMax == bMin + val_as_num_range_extent(b)
              IN  aMin > bMin /\ aMax > bMax
         [] val_type(a) = ScriptType_Bool -> val_as_bool(a) /\ ~val_as_bool(b)

script_val_neg(val, ub) ==
  CASE val_type(val) \in {ScriptType_Null, ScriptType_Bool, ScriptType_Str, ScriptType_Id} ->
         val_null
    [] val_type(val) = ScriptType_Num -> val_num(CastI32(-val_as_num(val)))
    [] val_type(val) = ScriptType_NumRange ->
         LET base == val_as_num_range_base(val)
             min == base - val_as_num_range_extent(val)
         IN  script_num_range_from_to(IF min <= i32_min THEN i32_min ELSE CastI32(min),
                                      base, ub)

script_val_num_range_min(val) ==
  IF val_type(val) # ScriptType_NumRange THEN val_null
  ELSE val_num(val_as_num_range_base(val))

script_val_num_range_max(val) ==
  IF val_type(val) # ScriptType_NumRange THEN val_null
  ELSE LET max == val_as_num_range_base(val) + val_as_num_range_extent(val)
       IN  val_num(IF max >= i32_max THEN i32_max ELSE CastI32(max))

script_val_num_range_from_to(from, to, ub) ==
  IF val_type(from) # ScriptType_Num \/ val_type(to) # ScriptType_Num THEN val_null
  ELSE script_num_range_from_to(val_as_num(from), val_as_num(to), ub)

script_val_contains_open_max(v, range) ==
  IF val_type(range) # ScriptType_NumRange THEN val_null
  ELSE LET min == val_as_num_range_base(range)
           max == val_clamp_to_i32(min + val_as_num_range_extent(range))
       IN  CASE val_type(v) \in {ScriptType_Null, ScriptType_Bool, ScriptType_Str,
                                 ScriptType_Id} -> val_null
             [] val_type(v) = ScriptType_Num ->
                  val_bool(val_as_num(v) >= min /\ val_as_num(v) < max)
             [] val_type(v) = ScriptType_NumRange ->
                  LET vMin == val_as_num_range_base(v)
                      vMax == val_clamp_to_i32(vMin + val_as_num_range_extent(v))
                  IN  val_bool(vMin >= min /\ vMax < max)

script_val_contains(v, range) ==
  IF val_type(range) # ScriptType_NumRange THEN val_null
  ELSE LET min == val_as_num_range_base(range)
           max == val_clamp_to_i32(min + val_as_num_range_extent(range))
       IN  CASE val_type(v) \in {ScriptType_Null, ScriptType_Bool, ScriptType_Str,
                                 ScriptType_Id} -> val_null
             [] val_type(v) = ScriptType_Num ->
                  val_bool(val_as_num(v) >= min /\ val_as_num(v) <= max)
             [] val_type(v) = ScriptType_NumRange ->
                  LET vMin == val_as_num_range_base(v)
                      vMax == val_clamp_to_i32(vMin + val_as_num_range_extent(v))
                  IN  val_bool(vMin >= min /\ vMax <= max)

script_val_inv(val) == val_bool(~script_truthy(val))

\* '-num' overflows for i32 min (undefined); the result is stored in an i32,
\* so wrapped and widened arithmetic both leave the low bits.
script_val_abs(val, ub) ==
  IF val_type(val) = ScriptType_Num
    THEN LET num == val_as_num(val)
         IN  val_num(IF num < 0 THEN CastI32(-num) ELSE num)
    ELSE val_null

script_val_add_keeps_lhs(a, b, ub) ==
  IF val_type(a) # val_type(b) THEN val_null ELSE a

script_val_add(a, b, ub) ==
  IF val_type(a) # val_type(b) THEN val_null
  ELSE IF val_type(a) = ScriptType_Num
    THEN LET res == val_as_num(a) + val_as_num(b)
         IN  val_num(IF res >= i32_max THEN i32_max ELSE CastI32(res))
  ELSE IF val_type(a) = ScriptType_NumRange
    THEN LET aMin == val_as_num_range_base(a)
             bMin == val_as_num_range_base(b)
             resMin == val_clamp_to_i32(AddI32(aMin, bMin, ub))
             aMax == aMin + val_as_num_range_extent(a)
             bMax == bMin + val_as_num_range_extent(b)
             resMax == val_clamp_to_i32(aMax + bMax)
         IN  script_num_range_from_to(resMin, resMax, ub)
  ELSE val_null

script_val_sub(a, b, ub) ==
  IF val_type(a) # val_type(b) THEN val_null
  ELSE IF val_type(a) = ScriptType_Num
    THEN LET res == val_as_num(a) - val_as_num(b)
         IN  val_num(IF res <= i32_min THEN i32_min ELSE CastI32(res))
  ELSE IF val_type(a) = ScriptType_NumRange
    THEN LET aMin == val_as_num_range_base(a)
             bMin == val_as_num_range_base(b)
             resMin == val_clamp_to_i32(SubI32(aMin, bMin, ub))
             aMax == aMin + val_as_num_range_extent(a)
             bMax == bMin + val_as_num_range_extent(b)
             resMax == val_clamp_to_i32(aMax - bMax)
         IN  script_num_range_from_to(resMin, resMax, ub)
  ELSE val_null

script_val_mul(a, b, ub) ==
  IF val_type(a) = ScriptType_Num
    THEN IF val_type(b) = ScriptType_Num
           THEN val_num(val_clamp_to_i32(val_as_num(a) * val_as_num(b)))
           ELSE val_null
  ELSE IF val_type(a) = ScriptType_NumRange
    THEN LET aMin == val_as_num_range_base(a)
             aMax == aMin + val_as_num_range_extent(a)
         IN  IF val_type(b) = ScriptType_Num
               THEN LET multiplier == val_as_num(b)
                    IN  script_num_range_from_to(
                          val_clamp_to_i32(aMin * multiplier),
                          val_clamp_to_i32(aMax * multiplier), ub)
               ELSE val_null
  ELSE val_null

\* 'x / y' on i64 operands; y = 0 is undefined.
DivI64(x, y, ub) == IF y = 0 THEN 0 ELSE TruncDiv(x, y)

script_val_div(a, b, ub) ==
  IF val_type(a) = ScriptType_Num
    THEN IF val_type(b) = ScriptType_Num
           THEN IF val_as_num(b) = 0 /\ ub.div = "trap"
                  THEN Crashed
                  ELSE val_num(val_clamp_to_i32(DivI64(val_as_num(a), val_as_num(b), ub)))
           ELSE val_null
  ELSE IF val_type(a) = ScriptType_NumRange
    THEN LET aMin == val_as_num_range_base(a)
             aMax == aMin + val_as_num_range_extent(a)
         IN  IF val_type(b) = ScriptType_Num
               THEN LET multiplier == val_as_num(b)
                    IN  IF multiplier = 0 /\ ub.div = "trap"
                          THEN Crashed
                          ELSE script_num_range_from_to(
                                 val_clamp_to_i32(DivI64(aMin, multiplier, ub)),
                                 val_clamp_to_i32(DivI64(aMax, multiplier, ub)), ub)
               ELSE val_null
  ELSE val_null

\* 'x % y' on i32 operands; y = 0 and i32_min % -1 are undefined.
ModI32(x, y, ub) ==
  IF y = 0 THEN x
  ELSE IF x = i32_min /\ y = -1 THEN 0
  ELSE TruncMod(x, y)

script_val_mod_unchecked_rhs(a, b, ub) ==
  IF val_type(a) = ScriptType_Num
    THEN IF ub.div = "trap"
            /\ (val_as_num(b) = 0 \/ (val_as_num(a) = i32_min /\ val_as_num(b) = -1))
           THEN Crashed
           ELSE val_num(ModI32(val_as_num(a), val_as_num(b), ub))
  ELSE val_null

script_val_mod(a, b, ub) ==
  IF val_type(a) = ScriptType_Num
    THEN IF val_type(b) = ScriptType_Num
           THEN IF ub.div = "trap"
                   /\ (val_as_num(b) = 0 \/ (val_as_num(a) = i32_min /\ val_as_num(b) = -1))
                  THEN Crashed
                  ELSE val_num(ModI32(val_as_num(a), val_as_num(b), ub))
           ELSE val_null
  ELSE val_null

---------------------------------------------------------------------------
(* panic.c: a ScriptPanic and the handler a raise unwinds to. *)

Panic(kind, argIndex, typeMask, typeActual) ==
  [kind |-> kind, argIndex |-> argIndex, typeMask |-> typeMask, typeActual |-> typeActual]

PanicNone == Panic("None", 0, 0, ScriptType_Null)

\* A handler nothing was raised to.
HandlerIdle == [hasPanic |-> FALSE, result |-> PanicNone]

\* Stores the panic in the handler and jumps to its anchor (longjmp): the
\* raising function and its callers up to the anchor do not continue.
script_panic_raise_not_stored(handler, panic) == [hasPanic |-> TRUE, result |-> handler.result]

script_panic_raise(handler, panic) == [hasPanic |-> TRUE, result |-> panic]

---------------------------------------------------------------------------
(* enum.c is not part of the source tree: a ScriptEnum maps the name      *)
(* hashes of its entries to values; the required lookups raise            *)
(* EnumInvalidEntry for a name that is no entry, the maybe lookup returns *)
(* the default.                                                            *)

EnumNames == {1}

EnumValue(nameHash) == nameHash + 2

script_enum_lookup_value_at_index(nameHash, argIndex, handler) ==
  IF nameHash \in EnumNames
    THEN [panicHandler |-> handler, ret |-> EnumValue(nameHash)]
    ELSE [panicHandler |->
            script_panic_raise(handler, Panic("EnumInvalidEntry", argIndex, 0, ScriptType_Null)),
          ret |-> "noreturn"]

script_enum_lookup_value(nameHash, handler) ==
  IF nameHash \in EnumNames
    THEN [panicHandler |-> handler, ret |-> EnumValue(nameHash)]
    ELSE [panicHandler |->
            script_panic_raise(handler, Panic("EnumInvalidEntry", 0, 0, ScriptType_Null)),
          ret |-> "noreturn"]

script_enum_lookup_maybe_value(nameHash, def) ==
  IF nameHash \in EnumNames THEN EnumValue(nameHash) ELSE def

---------------------------------------------------------------------------
(* args.c.  A ScriptBinderCall c: c.regs are the registers the call's    *)
(* arguments live in and c.args is the args pointer (the number of         *)
(* registers it is past the first one), so args[i] is c.regs[c.args+i+1]; *)
(* only the first c.argCount values from there on are arguments, the ones *)
(* behind hold whatever the registers hold.  Every function yields the    *)
(* handler as it leaves it and its return value ("noreturn" when it       *)
(* raised).                                                                *)

ArgAt(c, i) == c.regs[c.args + i + 1]

Returned(c, value) == [panicHandler |-> c.panicHandler, ret |-> value]

Unwound(handler) == [panicHandler |-> handler, ret |-> "noreturn"]

arg_type_error_actual_null(c, i, mask) ==
  script_panic_raise(c.panicHandler, Panic("ArgumentTypeMismatch", i, mask, ScriptType_Null))

arg_type_error(c, i, mask) ==
  script_panic_raise(
    c.panicHandler, Panic("ArgumentTypeMismatch", i, mask, val_type(ArgAt(c, i))))

arg_type_check_type_first(c, i, mask) ==
  IF ~val_type_check(ArgAt(c, i), mask)
    THEN script_panic_raise(
           c.panicHandler, Panic("ArgumentTypeMismatch", i, mask, val_type(ArgAt(c, i))))
  ELSE IF c.argCount <= i
    THEN script_panic_raise(c.panicHandler, Panic("ArgumentMissing", i, 0, ScriptType_Null))
  ELSE c.panicHandler

arg_type_check(c, i, mask) ==
  IF c.argCount <= i
    THEN script_panic_raise(c.panicHandler, Panic("ArgumentMissing", i, 0, ScriptType_Null))
  ELSE IF ~val_type_check(ArgAt(c, i), mask)
    THEN script_panic_raise(
           c.panicHandler, Panic("ArgumentTypeMismatch", i, mask, val_type(ArgAt(c, i))))
  ELSE c.panicHandler

script_arg_shift_count_only(c) == [c EXCEPT !.argCount = c.argCount - 1]

script_arg_shift(c) == [c EXCEPT !.args = c.args + 1, !.argCount = c.argCount - 1]

script_arg_num(c, i) ==
  LET h == arg_type_check(c, i, script_mask_num)
  IN  IF h.hasPanic THEN Unwound(h) ELSE Returned(c, val_as_num(ArgAt(c, i)))

script_arg_num_clamped_saturating(c, i, min, max) ==
  LET h == arg_type_check(c, i, script_mask_num)
      res == val_as_num(ArgAt(c, i))
  IN  IF h.hasPanic THEN Unwound(h)
      ELSE Returned(c, IF res < min THEN min ELSE IF res > max THEN max ELSE res)

script_arg_num_clamped(c, i, min, max) ==
  LET h == arg_type_check(c, i, script_mask_num)
      res == val_as_num(ArgAt(c, i))
  IN  IF h.hasPanic THEN Unwound(h)
      ELSE IF res >= min /\ res <= max THEN Returned(c, res)
      ELSE Unwound(script_panic_raise(
             c.panicHandler, Panic("ArgumentOutOfRange", i, 0, ScriptType_Null)))

script_arg_bool(c, i) ==
  LET h == arg_type_check(c, i, script_mask_bool)
  IN  IF h.hasPanic THEN Unwound(h) ELSE Returned(c, val_as_bool(ArgAt(c, i)))

script_arg_str(c, i) ==
  LET h == arg_type_check(c, i, script_mask_str)
  IN  IF h.hasPanic THEN Unwound(h) ELSE Returned(c, val_as_str(ArgAt(c, i)))

script_arg_id(c, i) ==
  LET h == arg_type_check(c, i, script_mask_id)
  IN  IF h.hasPanic THEN Unwound(h) ELSE Returned(c, val_as_id(ArgAt(c, i)))

script_arg_enum(c, i) ==
  LET h == arg_type_check(c, i, script_mask_str)
  IN  IF h.hasPanic THEN Unwound(h)
      ELSE script_enum_lookup_value_at_index(val_as_str(ArgAt(c, i)), i, c.panicHandler)

script_arg_opt_any(c, i, def) == Returned(c, IF c.argCount > i THEN ArgAt(c, i) ELSE def)

script_arg_opt_num(c, i, def) ==
  IF c.argCount > i
    THEN IF val_type(ArgAt(c, i)) = ScriptType_Num THEN Returned(c, val_as_num(ArgAt(c, i)))
         ELSE IF val_type(ArgAt(c, i)) = ScriptType_Null THEN Returned(c, def)
         ELSE Unwound(arg_type_error(c, i, MaskOr(script_mask_num, script_mask_null)))
    ELSE Returned(c, def)

script_arg_opt_num_clamped(c, i, min, max, def) ==
  IF c.argCount > i
    THEN IF val_type(ArgAt(c, i)) = ScriptType_Num
           THEN LET res == val_as_num(ArgAt(c, i))
                IN  IF res >= min /\ res <= max THEN Returned(c, res)
                    ELSE Unwound(script_panic_raise(
                           c.panicHandler, Panic("ArgumentOutOfRange", i, 0, ScriptType_Null)))
         ELSE IF val_type(ArgAt(c, i)) = ScriptType_Null THEN Returned(c, def)
         ELSE Unwound(arg_type_error(c, i, MaskOr(script_mask_num, script_mask_null)))
    ELSE Returned(c, def)

\* A ScriptArgNumRange {min, max} is the pair <<min, max>>.
script_arg_opt_num_range(c, i, def) ==
  IF c.argCount > i
    THEN IF val_type(ArgAt(c, i)) = ScriptType_NumRange
           THEN LET min == val_as_num_range_base(ArgAt(c, i))
                    max == min + val_as_num_range_extent(ArgAt(c, i))
                IN  Returned(c, <<min, IF max >= i32_max THEN i32_max ELSE max>>)
         ELSE IF val_type(ArgAt(c, i)) = ScriptType_Null THEN Returned(c, def)
         ELSE Unwound(arg_type_error(c, i, MaskOr(script_mask_num_range, script_mask_null)))
    ELSE Returned(c, def)

script_arg_opt_bool(c, i, def) ==
  IF c.argCount > i
    THEN IF val_type(ArgAt(c, i)) = ScriptType_Bool THEN Returned(c, val_as_bool(ArgAt(c, i)))
         ELSE IF val_type(ArgAt(c, i)) = ScriptType_Null THEN Returned(c, def)
         ELSE Unwound(arg_type_error(c, i, MaskOr(script_mask_bool, script_mask_null)))
    ELSE Returned(c, def)

script_arg_opt_str(c, i, def) ==
  IF c.argCount > i
    THEN IF val_type(ArgAt(c, i)) = ScriptType_Str THEN Returned(c, val_as_str(ArgAt(c, i)))
         ELSE IF val_type(ArgAt(c, i)) = ScriptType_Null THEN Returned(c, def)
         ELSE Unwound(arg_type_error(c, i, MaskOr(script_mask_str, script_mask_null)))
    ELSE Returned(c, def)

script_arg_opt_id(c, i, def) ==
  IF c.argCount > i
    THEN IF val_type(ArgAt(c, i)) = ScriptType_Id THEN Returned(c, val_as_id(ArgAt(c, i)))
         ELSE IF val_type(ArgAt(c, i)) = ScriptType_Null THEN Returned(c, def)
         ELSE Unwound(arg_type_error(c, i, MaskOr(script_mask_id, script_mask_null)))
    ELSE Returned(c, def)

script_arg_opt_enum(c, i, def) ==
  IF c.argCount > i
    THEN IF val_type(ArgAt(c, i)) = ScriptType_Str
           THEN script_enum_lookup_value(val_as_str(ArgAt(c, i)), c.panicHandler)
         ELSE IF val_type(ArgAt(c, i)) = ScriptType_Null THEN Returned(c, def)
         ELSE Unwound(arg_type_error(c, i, MaskOr(script_mask_str, script_mask_null)))
    ELSE Returned(c, def)

script_arg_maybe_num_strict(c, i, def) ==
  IF c.argCount > i
    THEN IF val_type(ArgAt(c, i)) = ScriptType_Num THEN Returned(c, val_as_num(ArgAt(c, i)))
         ELSE IF val_type(ArgAt(c, i)) = ScriptType_Null THEN Returned(c, def)
         ELSE Unwound(arg_type_error(c, i, MaskOr(script_mask_num, script_mask_null)))
    ELSE Returned(c, def)

script_arg_maybe_num(c, i, def) ==
  IF c.argCount > i /\ val_type(ArgAt(c, i)) = ScriptType_Num
    THEN Returned(c, val_as_num(ArgAt(c, i)))
    ELSE Returned(c, def)

script_arg_maybe_bool(c, i, def) ==
  IF c.argCount > i /\ val_type(ArgAt(c, i)) = ScriptType_Bool
    THEN Returned(c, val_as_bool(ArgAt(c, i)))
    ELSE Returned(c, def)

script_arg_maybe_str(c, i, def) ==
  IF c.argCount > i /\ val_type(ArgAt(c, i)) = ScriptType_Str
    THEN Returned(c, val_as_str(ArgAt(c, i)))
    ELSE Returned(c, def)

script_arg_maybe_id(c, i, def) ==
  IF c.argCount > i /\ val_type(ArgAt(c, i)) = ScriptType_Id
    THEN Returned(c, val_as_id(ArgAt(c, i)))
    ELSE Returned(c, def)

script_arg_maybe_enum(c, i, def) ==
  IF c.argCount > i /\ val_type(ArgAt(c, i)) = ScriptType_Str
    THEN Returned(c, script_enum_lookup_maybe_value(val_as_str(ArgAt(c, i)), def))
    ELSE Returned(c, def)

---------------------------------------------------------------------------
(* import_mesh.c: the joint_parent binding.  ctx.jointCount is a u32 and   *)
(* ctx.joints the parent index of every joint.                             *)

\* The outcome of a native function: the handler, the value it returns and
\* the context as it leaves it.
Native(outcome, ctx) ==
  [panicHandler |-> outcome.panicHandler, ret |-> outcome.ret, ctx |-> ctx]

import_eval_flat_normals(ctx, c) ==
  IF c.argCount < 1
    THEN Native(Returned(c, val_bool(ctx.flatNormals)), ctx)
    ELSE LET r == script_arg_bool(c, 0)
         IN  IF r.panicHandler.hasPanic THEN Native(r, ctx)
             ELSE Native(Returned(c, val_null), [ctx EXCEPT !.flatNormals = r.ret])

import_eval_joint_parent(ctx, c) ==
  LET max == CastI32((ctx.jointCount - 1) % (2 ^ I32Bits))
      r == script_arg_num_clamped(c, 0, 0, max)
  IN  IF r.panicHandler.hasPanic THEN Native(r, ctx)
      ELSE Native(Returned(c, val_num(ctx.joints[r.ret + 1])), ctx)

\* The joints of a mesh with n joints: the root is its own parent.
Joints(n) == [k \in 1 .. n |-> IF k = 1 THEN 0 ELSE k - 2]

MeshCtx(n) == [jointCount |-> n, joints |-> Joints(n), flatNormals |-> FALSE]

---------------------------------------------------------------------------
(* prog.h: the instruction encoding.  The code is a sequence of bytes      *)
(* (index 1 is offset 0): an op-code byte followed by the operation data.  *)

script_prog_regs == 38

ScriptOp_Fail == 0

ScriptOp_Assert == 1

ScriptOp_Return == 2

ScriptOp_ReturnNull == 3

ScriptOp_Move == 4

ScriptOp_Jump == 5

ScriptOp_JumpIfTruthy == 6

ScriptOp_JumpIfFalsy == 7

ScriptOp_JumpIfNonNull == 8

ScriptOp_Value == 9

ScriptOp_ValueNull == 10

ScriptOp_ValueBool == 11

ScriptOp_MemLoad == 13

ScriptOp_MemStore == 14

ScriptOp_Extern == 17

ScriptOp_Add == 26

\* The size in bytes of the operation data fields.
SizeOpCode == 1

SizeInstruction == 2

SizeRegId == 1

SizeRegCount == 1

SizeExternFunc == 2

SizeValueId == 1

SizeBoolean == 1

SizeMemKey == 4

\* The operations the model knows.
KnownOps ==
  {ScriptOp_Fail, ScriptOp_Assert, ScriptOp_Return, ScriptOp_ReturnNull, ScriptOp_Move,
   ScriptOp_Jump, ScriptOp_JumpIfTruthy, ScriptOp_JumpIfFalsy, ScriptOp_JumpIfNonNull,
   ScriptOp_Value, ScriptOp_ValueNull, ScriptOp_ValueBool, ScriptOp_MemLoad,
   ScriptOp_MemStore, ScriptOp_Extern, ScriptOp_Add}

\* The size of an instruction: the op-code and its operation data.
OpSize(op) ==
  CASE op \in {ScriptOp_Fail, ScriptOp_ReturnNull} -> SizeOpCode
    [] op \in {ScriptOp_Assert, ScriptOp_Return, ScriptOp_ValueNull} -> SizeOpCode + SizeRegId
    [] op \in {ScriptOp_Move, ScriptOp_Add} -> SizeOpCode + SizeRegId + SizeRegId
    [] op = ScriptOp_Jump -> SizeOpCode + SizeInstruction
    [] op \in {ScriptOp_JumpIfTruthy, ScriptOp_JumpIfFalsy, ScriptOp_JumpIfNonNull} ->
         SizeOpCode + SizeRegId + SizeInstruction
    [] op = ScriptOp_Value -> SizeOpCode + SizeRegId + SizeValueId
    [] op = ScriptOp_ValueBool -> SizeOpCode + SizeRegId + SizeBoolean
    [] op \in {ScriptOp_MemLoad, ScriptOp_MemStore} -> SizeOpCode + SizeRegId + SizeMemKey
    [] op = ScriptOp_Extern ->
         SizeOpCode + SizeRegId + SizeExternFunc + SizeRegId + SizeRegCount
    [] OTHER -> SizeOpCode

\* The byte at an offset, and the little-endian fields.
ByteAt(code, off) == code[off + 1]

U16At(code, off) == ByteAt(code, off) + 256 * ByteAt(code, off + 1)

\* A memory key: 4 bytes, little-endian; the model's keys fit the low byte.
U32At(code, off) == ByteAt(code, off) + 256 * U16At(code, off + 1)

\* The jump target of the instruction at ip (the trailing 2 bytes).
JumpTarget(code, ip) == U16At(code, ip + OpSize(ByteAt(code, ip)) - SizeInstruction)

IsJump(op) ==
  op \in {ScriptOp_Jump, ScriptOp_JumpIfTruthy, ScriptOp_JumpIfFalsy, ScriptOp_JumpIfNonNull}

\* The registers the instruction at ip names (Extern: d and the window r:c).
InstrRegs(code, ip) ==
  LET op == ByteAt(code, ip)
  IN  CASE op \in {ScriptOp_Assert, ScriptOp_Return, ScriptOp_ValueNull, ScriptOp_Value,
                   ScriptOp_ValueBool, ScriptOp_MemLoad, ScriptOp_MemStore,
                   ScriptOp_JumpIfTruthy, ScriptOp_JumpIfFalsy, ScriptOp_JumpIfNonNull} ->
             {ByteAt(code, ip + 1)}
        [] op \in {ScriptOp_Move, ScriptOp_Add} -> {ByteAt(code, ip + 1), ByteAt(code, ip + 2)}
        [] op = ScriptOp_Extern ->
             {ByteAt(code, ip + 1)}
               \cup {ByteAt(code, ip + 4) + k : k \in 0 .. (ByteAt(code, ip + 5) - 1)}
        [] OTHER -> {}

---------------------------------------------------------------------------
(* prog.c is not part of the source tree.  The program, its validation    *)
(* and the evaluation loop follow the specification; the operations       *)
(* follow the documentation of ScriptOp in prog.h.                         *)

\* The binder: the native functions by extern-func index, and its hash.
BinderFuncs == <<"joint_parent", "flat_normals">>

BinderHash == 7

\* Invoke the native function with extern-func index f.
BinderCall(f, ctx, c) ==
  IF BinderFuncs[f + 1] = "joint_parent"
    THEN import_eval_joint_parent(ctx, c)
    ELSE import_eval_flat_normals(ctx, c)

RECURSIVE InstrStarts(_, _)
\* The offsets decoding reaches when it starts at ip and advances by the
\* size of every instruction.
InstrStarts(code, ip) ==
  IF ip >= Len(code) THEN {}
  ELSE {ip} \cup InstrStarts(code, ip + OpSize(ByteAt(code, ip)))

\* The instructions that end an evaluation or leave unconditionally.
IsTerminator(op) ==
  op \in {ScriptOp_Fail, ScriptOp_Return, ScriptOp_ReturnNull, ScriptOp_Jump}

InstrValid_dest_only(prog, ip, starts) ==
  LET code == prog.code
      op == ByteAt(code, ip)
  IN  /\ op \in KnownOps
      /\ ip + OpSize(op) <= Len(code)
      /\ op # ScriptOp_Fail /\ op # ScriptOp_ReturnNull /\ op # ScriptOp_Jump =>
           ByteAt(code, ip + 1) < script_prog_regs
      /\ IsJump(op) => JumpTarget(code, ip) \in starts
      /\ op = ScriptOp_Value => ByteAt(code, ip + 2) < Len(prog.literals)
      /\ op = ScriptOp_Extern => U16At(code, ip + 2) < Len(BinderFuncs)

InstrValid(prog, ip, starts) ==
  LET code == prog.code
      op == ByteAt(code, ip)
  IN  /\ op \in KnownOps
      /\ ip + OpSize(op) <= Len(code)
      /\ \A r \in InstrRegs(code, ip) : r < script_prog_regs
      /\ IsJump(op) => JumpTarget(code, ip) \in starts
      /\ op = ScriptOp_Value => ByteAt(code, ip + 2) < Len(prog.literals)
      /\ op = ScriptOp_Extern => U16At(code, ip + 2) < Len(BinderFuncs)

script_prog_validate_any_hash(prog, binderHash) ==
  LET starts == InstrStarts(prog.code, 0)
  IN  /\ Len(prog.code) > 0
      /\ \A ip \in starts : InstrValid(prog, ip, starts)
      /\ \E ip \in starts :
           /\ ip + OpSize(ByteAt(prog.code, ip)) = Len(prog.code)
           /\ IsTerminator(ByteAt(prog.code, ip))

script_prog_validate(prog, binderHash) ==
  LET starts == InstrStarts(prog.code, 0)
  IN  /\ prog.binderHash = binderHash
      /\ Len(prog.code) > 0
      /\ \A ip \in starts : InstrValid(prog, ip, starts)
      /\ \E ip \in starts :
           /\ ip + OpSize(ByteAt(prog.code, ip)) = Len(prog.code)
           /\ IsTerminator(ByteAt(prog.code, ip))

\* The op-count limit of one evaluation.
OpsMax == 6

\* Register k is regs[k + 1]; memory is a function of the key.
MemKeys == 0 .. 1

RegsInit == [k \in 1 .. script_prog_regs |-> val_null]

MemInit == [k \in MemKeys |-> val_null]

Result(executedOps, panic, val) == [executedOps |-> executedOps, panic |-> panic, val |-> val]

\* An evaluation of prog before its validation.
EvalLoaded(prog) ==
  [prog |-> prog, pc |-> "loaded", ip |-> 0, regs |-> RegsInit, mem |-> MemInit,
   executedOps |-> 0, res |-> Result(0, PanicNone, val_null)]

Reg(s, k) == s.regs[k + 1]

\* The evaluation returns 'val'.
Finish(s, val) ==
  [s EXCEPT !.pc = "done", !.executedOps = @ + 1,
            !.res = Result(s.executedOps + 1, PanicNone, val)]

\* The evaluation ends with a panic.
Abort(s, panic) ==
  [s EXCEPT !.pc = "done", !.executedOps = @ + 1,
            !.res = Result(s.executedOps + 1, panic, val_null)]

\* The instruction is done and the next one is at 'ip'.
Goto(s, ip) == [s EXCEPT !.ip = ip, !.executedOps = @ + 1]

\* The instruction wrote 'val' to register d and the next one follows it.
Write(s, d, val) ==
  [s EXCEPT !.regs[d + 1] = val, !.executedOps = @ + 1,
            !.ip = s.ip + OpSize(ByteAt(s.prog.code, s.ip))]

Next_ip(s) == s.ip + OpSize(ByteAt(s.prog.code, s.ip))

---------------------------------------------------------------------------
(* The parts of the state a specification does not use stay idle. *)

NoInput == [i |-> 0, def |-> 0, min |-> 0, max |-> 0, jointCount |-> 0]

ValIdle == va = val_null /\ vb = val_null /\ vop = "" /\ vres = val_null

ArgIdle ==
  /\ call = [regs |-> <<>>, args |-> 0, argCount |-> 0, panicHandler |-> HandlerIdle]
  /\ afn = ""
  /\ ain = NoInput
  /\ ares = [panicHandler |-> HandlerIdle, ret |-> "none"]

EvalIdle == ev = <<>> /\ bindCtx = MeshCtx(0)

---------------------------------------------------------------------------
(* intrinsic.h, intrinsic.c *)

ScriptIntrinsic_Continue == 0

ScriptIntrinsic_Break == 1

ScriptIntrinsic_Return == 2

ScriptIntrinsic_Type == 3

ScriptIntrinsic_Hash == 4

ScriptIntrinsic_Assert == 5

ScriptIntrinsic_MemLoadDynamic == 6

ScriptIntrinsic_MemStoreDynamic == 7

ScriptIntrinsic_Select == 8

ScriptIntrinsic_NullCoalescing == 9

ScriptIntrinsic_LogicAnd == 10

ScriptIntrinsic_LogicOr == 11

ScriptIntrinsic_Loop == 12

ScriptIntrinsic_Equal == 13

ScriptIntrinsic_NotEqual == 14

ScriptIntrinsic_Less == 15

ScriptIntrinsic_LessOrEqual == 16

ScriptIntrinsic_Greater == 17

ScriptIntrinsic_GreaterOrEqual == 18

ScriptIntrinsic_Add == 19

ScriptIntrinsic_Sub == 20

ScriptIntrinsic_Mul == 21

ScriptIntrinsic_Div == 22

ScriptIntrinsic_Mod == 23

ScriptIntrinsic_Negate == 24

ScriptIntrinsic_Invert == 25

ScriptIntrinsic_Absolute == 26

ScriptIntrinsic_RangeMin == 27

ScriptIntrinsic_RangeMax == 28

ScriptIntrinsic_RangeFromTo == 29

ScriptIntrinsic_Clamp == 30

ScriptIntrinsic_Contains == 31

ScriptIntrinsic_Min == 32

ScriptIntrinsic_Max == 33

ScriptIntrinsic_Count == 34

ScriptIntrinsics == 0 .. (ScriptIntrinsic_Count - 1)

\* The assertion failure of an unknown intrinsic is the result -1.
script_intrinsic_arg_count(i) ==
  CASE i \in {ScriptIntrinsic_Break, ScriptIntrinsic_Continue} -> 0
    [] i \in {ScriptIntrinsic_Return, ScriptIntrinsic_Assert,
              ScriptIntrinsic_MemLoadDynamic, ScriptIntrinsic_Invert,
              ScriptIntrinsic_Absolute, ScriptIntrinsic_Negate, ScriptIntrinsic_Type,
              ScriptIntrinsic_Hash, ScriptIntrinsic_RangeMin, ScriptIntrinsic_RangeMax} -> 1
    [] i \in {ScriptIntrinsic_MemStoreDynamic, ScriptIntrinsic_Add,
              ScriptIntrinsic_Div, ScriptIntrinsic_Equal, ScriptIntrinsic_Greater,
              ScriptIntrinsic_GreaterOrEqual, ScriptIntrinsic_Less,
              ScriptIntrinsic_LessOrEqual, ScriptIntrinsic_LogicAnd,
              ScriptIntrinsic_LogicOr, ScriptIntrinsic_Mod, ScriptIntrinsic_Mul,
              ScriptIntrinsic_NotEqual, ScriptIntrinsic_NullCoalescing,
              ScriptIntrinsic_Sub, ScriptIntrinsic_Min, ScriptIntrinsic_Max,
              ScriptIntrinsic_Clamp, ScriptIntrinsic_Contains,
              ScriptIntrinsic_RangeFromTo} -> 2
    [] i = ScriptIntrinsic_Select -> 3
    [] i = ScriptIntrinsic_Loop -> 4
    [] OTHER -> -1

script_intrinsic_arg_count_always_reached_all(i) == script_intrinsic_arg_count(i)

script_intrinsic_arg_count_always_reached(i) ==
  CASE i \in {ScriptIntrinsic_Select, ScriptIntrinsic_NullCoalescing,
              ScriptIntrinsic_LogicAnd, ScriptIntrinsic_LogicOr} -> 1
    [] i = ScriptIntrinsic_Loop -> 2
    [] OTHER -> script_intrinsic_arg_count(i)

---------------------------------------------------------------------------
(* SpecVal: a value operation applied to two operands. *)

StrHashes == 0 .. 1

IdValues == 1 .. 2

Nums == {val_num(n) : n \in I32}

NumRanges == {val_num_range(b, e) : b \in I32, e \in U16}

Bools == {val_bool(b) : b \in BOOLEAN}

Strs == {val_str(h) : h \in StrHashes}

Ids == {val_id(i) : i \in IdValues}

Vals == {val_null} \cup Nums \cup NumRanges \cup Bools \cup Strs \cup Ids

InitVal ==
  /\ va \in Vals
  /\ vb \in Vals
  /\ vop = ""
  /\ vres = val_null
  /\ ArgIdle
  /\ EvalIdle

ValAdd ==
  /\ vop = ""
  /\ \E ub \in UB : vres' = script_val_add(va, vb, ub)
  /\ vop' = "add"
  /\ UNCHANGED <<va, vb, argVars, evalVars>>

ValSub ==
  /\ vop = ""
  /\ \E ub \in UB : vres' = script_val_sub(va, vb, ub)
  /\ vop' = "sub"
  /\ UNCHANGED <<va, vb, argVars, evalVars>>

ValMul ==
  /\ vop = ""
  /\ \E ub \in UB : vres' = script_val_mul(va, vb, ub)
  /\ vop' = "mul"
  /\ UNCHANGED <<va, vb, argVars, evalVars>>

ValDiv ==
  /\ vop = ""
  /\ \E ub \in UB : vres' = script_val_div(va, vb, ub)
  /\ vop' = "div"
  /\ UNCHANGED <<va, vb, argVars, evalVars>>

ValMod ==
  /\ vop = ""
  /\ \E ub \in UB : vres' = script_val_mod(va, vb, ub)
  /\ vop' = "mod"
  /\ UNCHANGED <<va, vb, argVars, evalVars>>

\* A unary operation applied to va.
ValUnary(op, res) ==
  /\ vop = ""
  /\ vres' = res
  /\ vop' = op
  /\ UNCHANGED <<va, vb, argVars, evalVars>>

ValNeg == \E ub \in UB : ValUnary("neg", script_val_neg(va, ub))

ValRangeMin == ValUnary("range_min", script_val_num_range_min(va))

ValRangeMax == ValUnary("range_max", script_val_num_range_max(va))

ValRangeFromTo ==
  \E ub \in UB : ValUnary("range_from_to", script_val_num_range_from_to(va, vb, ub))

ValEqual == ValUnary("equal", script_val_equal(va, vb))

ValLess == ValUnary("less", script_val_less(va, vb))

ValGreater == ValUnary("greater", script_val_greater(va, vb))

\* The fallbacks of the extraction functions.
Fallbacks ==
  [num : {-3, 6}, base : {-3, 6}, extent : {0, 2}, bool : BOOLEAN, str : {0, 9}, id : {0, 9}]

\* Every extraction function applied to va, each with its fallback.
ValGet ==
  \E f \in Fallbacks :
    /\ vb = val_null
    /\ ValUnary("get",
         [f |-> f,
          type |-> script_type(va),
          num |-> script_get_num(va, f.num),
          base |-> script_get_num_range_base(va, f.base),
          extent |-> script_get_num_range_extent(va, f.extent),
          bool |-> script_get_bool(va, f.bool),
          str |-> script_get_str(va, f.str),
          id |-> script_get_id(va, f.id)])

\* script_num_range_from_to applied to two numbers in both orders; each call
\* resolves the overflow of 'max - min' on its own.
ValFromToSwap ==
  \E ub1 \in UB, ub2 \in UB :
    /\ va \in Nums /\ vb \in Nums
    /\ ValUnary("from_to_swap",
         [ab |-> script_num_range_from_to(val_as_num(va), val_as_num(vb), ub1),
          ba |-> script_num_range_from_to(val_as_num(vb), val_as_num(va), ub2)])

ValContains == ValUnary("contains", script_val_contains(va, vb))

\* script_truthy, script_falsy and script_val_inv applied to va.
ValTruth ==
  /\ vb = val_null
  /\ ValUnary("truth",
       [truthy |-> script_truthy(va), falsy |-> script_falsy(va), inv |-> script_val_inv(va)])

\* script_id_or_null applied to a u64.
ValIdOrNull ==
  \E id \in U64 :
    /\ vb = val_null
    /\ ValUnary("id_or_null", [id |-> id, val |-> script_id_or_null(id)])

\* The two argument counts of an intrinsic.
ValIntrinsic ==
  \E i \in ScriptIntrinsics :
    /\ va = val_null /\ vb = val_null
    /\ ValUnary("intrinsic",
         [i |-> i,
          count |-> script_intrinsic_arg_count(i),
          reached |-> script_intrinsic_arg_count_always_reached(i)])

ValAbs ==
  \E ub \in UB :
    /\ vb = val_null
    /\ ValUnary("abs", script_val_abs(va, ub))

NextVal ==
  \/ ValAbs
  \/ ValIntrinsic
  \/ ValIdOrNull
  \/ ValTruth
  \/ ValContains
  \/ ValFromToSwap
  \/ ValGet
  \/ ValAdd \/ ValSub \/ ValMul \/ ValDiv \/ ValMod
  \/ ValNeg \/ ValRangeMin \/ ValRangeMax \/ ValRangeFromTo
  \/ ValEqual \/ ValLess \/ ValGreater

SpecVal == InitVal /\ [][NextVal]_vars

---------------------------------------------------------------------------
(* SpecArg: a native function reads the arguments of its call. *)

MaxArgs == 2

MaxJoints == 3

ArgVals ==
  {val_null, val_num(0), val_num(2), val_num_range(1, 1), val_bool(TRUE), val_bool(FALSE),
   val_str(0), val_str(1), val_id(1)}

\* What the registers behind the last argument of the longest call hold.
StaleRegs == [k \in 1 .. MaxArgs |-> IF k % 2 = 1 THEN val_bool(TRUE) ELSE val_num(2)]

ArgIndices == 0 .. (MaxArgs - 1)

DefNums == {-5, 6}

DefStrs == {7}

DefIds == {5}

DefVals == {val_null, val_num(6)}

DefRanges == {<<-5, 6>>}

ClampBounds == 0 .. 2

InitArg ==
  /\ ValIdle
  /\ EvalIdle
  /\ \E window \in [1 .. MaxArgs -> ArgVals], n \in 0 .. MaxArgs :
       call = [regs |-> window \o StaleRegs, args |-> 0, argCount |-> n,
               panicHandler |-> HandlerIdle]
  /\ afn = ""
  /\ ain = NoInput
  /\ ares = [panicHandler |-> HandlerIdle, ret |-> "none"]

\* A function applied with parameters 'in' and outcome 'out'.
Applied(fn, in, out) ==
  /\ afn = ""
  /\ afn' = fn
  /\ ain' = in
  /\ ares' = out
  /\ UNCHANGED <<call, valVars, evalVars>>

ArgShift ==
  /\ afn = ""
  /\ call.argCount > 0
  /\ call' = script_arg_shift(call)
  /\ UNCHANGED <<afn, ain, ares, valVars, evalVars>>

ArgNum ==
  \E i \in ArgIndices :
    Applied("num", [NoInput EXCEPT !.i = i], script_arg_num(call, i))

ArgNumClamped ==
  \E i \in ArgIndices, min \in ClampBounds, max \in ClampBounds :
    Applied("num_clamped", [NoInput EXCEPT !.i = i, !.min = min, !.max = max],
            script_arg_num_clamped(call, i, min, max))

ArgBool ==
  \E i \in ArgIndices :
    Applied("bool", [NoInput EXCEPT !.i = i], script_arg_bool(call, i))

ArgStr ==
  \E i \in ArgIndices :
    Applied("str", [NoInput EXCEPT !.i = i], script_arg_str(call, i))

ArgId ==
  \E i \in ArgIndices :
    Applied("id", [NoInput EXCEPT !.i = i], script_arg_id(call, i))

ArgEnum ==
  \E i \in ArgIndices :
    Applied("enum", [NoInput EXCEPT !.i = i], script_arg_enum(call, i))

ArgOptAny ==
  \E i \in ArgIndices, def \in DefVals :
    Applied("opt_any", [NoInput EXCEPT !.i = i, !.def = def], script_arg_opt_any(call, i, def))

ArgOptNum ==
  \E i \in ArgIndices, def \in DefNums :
    Applied("opt_num", [NoInput EXCEPT !.i = i, !.def = def], script_arg_opt_num(call, i, def))

ArgOptNumClamped ==
  \E i \in ArgIndices, min \in ClampBounds, max \in ClampBounds, def \in DefNums :
    Applied("opt_num_clamped", [NoInput EXCEPT !.i = i, !.min = min, !.max = max, !.def = def],
            script_arg_opt_num_clamped(call, i, min, max, def))

ArgOptNumRange ==
  \E i \in ArgIndices, def \in DefRanges :
    Applied("opt_num_range", [NoInput EXCEPT !.i = i, !.def = def],
            script_arg_opt_num_range(call, i, def))

ArgOptBool ==
  \E i \in ArgIndices, def \in BOOLEAN :
    Applied("opt_bool", [NoInput EXCEPT !.i = i, !.def = def], script_arg_opt_bool(call, i, def))

ArgOptStr ==
  \E i \in ArgIndices, def \in DefStrs :
    Applied("opt_str", [NoInput EXCEPT !.i = i, !.def = def], script_arg_opt_str(call, i, def))

ArgOptId ==
  \E i \in ArgIndices, def \in DefIds :
    Applied("opt_id", [NoInput EXCEPT !.i = i, !.def = def], script_arg_opt_id(call, i, def))

ArgOptEnum ==
  \E i \in ArgIndices, def \in DefNums :
    Applied("opt_enum", [NoInput EXCEPT !.i = i, !.def = def], script_arg_opt_enum(call, i, def))

ArgMaybeNum ==
  \E i \in ArgIndices, def \in DefNums :
    Applied("maybe_num", [NoInput EXCEPT !.i = i, !.def = def],
            script_arg_maybe_num(call, i, def))

ArgMaybeBool ==
  \E i \in ArgIndices, def \in BOOLEAN :
    Applied("maybe_bool", [NoInput EXCEPT !.i = i, !.def = def],
            script_arg_maybe_bool(call, i, def))

ArgMaybeStr ==
  \E i \in ArgIndices, def \in DefStrs :
    Applied("maybe_str", [NoInput EXCEPT !.i = i, !.def = def],
            script_arg_maybe_str(call, i, def))

ArgMaybeId ==
  \E i \in ArgIndices, def \in DefIds :
    Applied("maybe_id", [NoInput EXCEPT !.i = i, !.def = def],
            script_arg_maybe_id(call, i, def))

ArgMaybeEnum ==
  \E i \in ArgIndices, def \in DefNums :
    Applied("maybe_enum", [NoInput EXCEPT !.i = i, !.def = def],
            script_arg_maybe_enum(call, i, def))

ImportJointParent ==
  \E n \in 0 .. MaxJoints :
    Applied("joint_parent", [NoInput EXCEPT !.jointCount = n],
            import_eval_joint_parent(MeshCtx(n), call))

NextArg ==
  \/ ArgShift
  \/ ArgNum \/ ArgNumClamped \/ ArgBool \/ ArgStr \/ ArgId \/ ArgEnum
  \/ ArgOptAny \/ ArgOptNum \/ ArgOptNumClamped \/ ArgOptNumRange
  \/ ArgOptBool \/ ArgOptStr \/ ArgOptId \/ ArgOptEnum
  \/ ArgMaybeNum \/ ArgMaybeBool \/ ArgMaybeStr \/ ArgMaybeId \/ ArgMaybeEnum
  \/ ImportJointParent

SpecArg == InitArg /\ [][NextArg]_vars

---------------------------------------------------------------------------
(* Spec: programs are validated against the binder and the valid ones are *)
(* evaluated, one instruction per step.                                    *)

MaxInstrs == 3

\* The literal pool of the programs.
Literals == <<val_num(2), val_num(3)>>

\* The instructions the generated programs are made of.
InstrPool ==
  { <<ScriptOp_Fail>>,
    <<ScriptOp_Assert, 0>>,
    <<ScriptOp_Return, 0>>,
    <<ScriptOp_ReturnNull>>,
    <<ScriptOp_Jump, 0, 0>>,
    <<ScriptOp_JumpIfFalsy, 0, 0, 0>>,
    <<ScriptOp_ValueBool, 0, 1>>,
    <<ScriptOp_Value, 0, 0>>,
    <<ScriptOp_Extern, 0, 0, 0, 0, 0>>,
    <<ScriptOp_Extern, 0, 0, 0, 0, 1>> }

RECURSIVE Flatten(_)
Flatten(instrs) ==
  IF instrs = <<>> THEN <<>> ELSE Head(instrs) \o Flatten(Tail(instrs))

GeneratedCode ==
  UNION {{Flatten(instrs) : instrs \in [1 .. n -> InstrPool]} : n \in 1 .. MaxInstrs}

\* Value r0 <- literal 0; Value r1 <- literal 1; Add r0, r1; Return r0.
CodeAddLiterals ==
  <<ScriptOp_Value, 0, 0, ScriptOp_Value, 1, 1, ScriptOp_Add, 0, 1, ScriptOp_Return, 0>>

\* Both conditional jumps are taken: offsets 0 3 6 (10) 11 (15) 16 18.
CodeBranches ==
  <<ScriptOp_ValueBool, 1, 1, ScriptOp_Move, 0, 1, ScriptOp_JumpIfTruthy, 0, 11, 0,
    ScriptOp_Fail, ScriptOp_JumpIfNonNull, 0, 16, 0, ScriptOp_Fail,
    ScriptOp_ValueNull, 0, ScriptOp_Return, 0>>

\* flat_normals(true); flat_normals() is returned.
CodeFlatNormals ==
  <<ScriptOp_ValueBool, 1, 1, ScriptOp_Extern, 2, 1, 0, 1, 1,
    ScriptOp_Extern, 0, 1, 0, 1, 0, ScriptOp_Return, 0>>

\* A value is stored to memory key 1 and loaded back; the forward Jump
\* skips the Fail: offsets 0 3 9 15 (18) 19.
CodeMemory ==
  <<ScriptOp_ValueBool, 0, 1, ScriptOp_MemStore, 0, 1, 0, 0, 0,
    ScriptOp_MemLoad, 1, 1, 0, 0, 0, ScriptOp_Jump, 19, 0, ScriptOp_Fail,
    ScriptOp_Return, 1>>

\* joint_parent of a Bool.
CodeJointOfBool ==
  <<ScriptOp_ValueBool, 0, 0, ScriptOp_Extern, 0, 0, 0, 0, 1, ScriptOp_Return, 0>>

\* Code validation has to refuse: an unknown op-code, a truncated
\* instruction, a register and an Extern window outside the register file,
\* a literal outside the pool, an extern function the binder does not have,
\* a jump out of the stream and a jump into the middle of an instruction.
MalformedCode ==
  { <<99>>,
    <<ScriptOp_Jump, 0>>,
    <<ScriptOp_Return, script_prog_regs>>,
    <<ScriptOp_Extern, 0, 0, 0, script_prog_regs - 1, 2, ScriptOp_ReturnNull>>,
    <<ScriptOp_Value, 0, 2, ScriptOp_ReturnNull>>,
    <<ScriptOp_Extern, 0, 2, 0, 0, 0, ScriptOp_ReturnNull>>,
    <<ScriptOp_Jump, 9, 0>>,
    <<ScriptOp_ValueBool, 0, 1, ScriptOp_Jump, 2, 0>> }

Codes ==
  GeneratedCode \cup MalformedCode
    \cup {CodeAddLiterals, CodeBranches, CodeFlatNormals, CodeMemory, CodeJointOfBool}

\* A program compiled against the binder, or against an older one.
Programs ==
  {[code |-> code, literals |-> Literals, binderHash |-> h] :
     code \in Codes, h \in {BinderHash, BinderHash + 1}}

Contexts == {MeshCtx(0), MeshCtx(MaxJoints)}

Init ==
  /\ ValIdle
  /\ ArgIdle
  /\ \E prog \in Programs : ev = <<EvalLoaded(prog)>>
  /\ bindCtx \in Contexts

\* script_prog_validate decides whether the evaluation is entered.
ProgValidate(e) ==
  /\ ev[e].pc = "loaded"
  /\ ev' = [ev EXCEPT ![e].pc =
              IF script_prog_validate(ev[e].prog, BinderHash) THEN "running" ELSE "invalid"]
  /\ UNCHANGED <<bindCtx, valVars, argVars>>

\* The evaluation e is about to dispatch an instruction with op-code op.
Dispatch_off_by_one(e, op) ==
  /\ ev[e].pc = "running"
  /\ ev[e].executedOps <= OpsMax
  /\ ByteAt(ev[e].prog.code, ev[e].ip) = op

Dispatch(e, op) ==
  /\ ev[e].pc = "running"
  /\ ev[e].executedOps < OpsMax
  /\ ByteAt(ev[e].prog.code, ev[e].ip) = op

\* The evaluation e becomes s; nothing else changes.
Becomes_shared_mem(e, s) ==
  /\ ev' = [x \in DOMAIN ev |-> IF x = e THEN s ELSE [ev[x] EXCEPT !.mem = s.mem]]
  /\ UNCHANGED <<bindCtx, valVars, argVars>>

\* The evaluation e becomes s; nothing else changes.
Becomes(e, s) ==
  /\ ev' = [ev EXCEPT ![e] = s]
  /\ UNCHANGED <<bindCtx, valVars, argVars>>

\* Operand k (a byte) of the instruction the evaluation s is at.
Operand(s, k) == ByteAt(s.prog.code, s.ip + k)

EvalLimit(e) ==
  /\ ev[e].pc = "running"
  /\ ev[e].executedOps >= OpsMax
  /\ Becomes(e, [ev[e] EXCEPT
       !.pc = "done",
       !.res = Result(ev[e].executedOps, Panic("ExecutionLimitExceeded", 0, 0, ScriptType_Null),
                      val_null)])

EvalFail(e) ==
  /\ Dispatch(e, ScriptOp_Fail)
  /\ Becomes(e, Abort(ev[e], Panic("ExecutionFailed", 0, 0, ScriptType_Null)))

EvalAssert(e) ==
  /\ Dispatch(e, ScriptOp_Assert)
  /\ Becomes(e, IF script_falsy(Reg(ev[e], Operand(ev[e], 1)))
                  THEN Abort(ev[e], Panic("AssertionFailed", 0, 0, ScriptType_Null))
                  ELSE Goto(ev[e], Next_ip(ev[e])))

EvalReturn(e) ==
  /\ Dispatch(e, ScriptOp_Return)
  /\ Becomes(e, Finish(ev[e], Reg(ev[e], Operand(ev[e], 1))))

EvalReturnNull(e) ==
  /\ Dispatch(e, ScriptOp_ReturnNull)
  /\ Becomes(e, Finish(ev[e], val_null))

EvalMove(e) ==
  /\ Dispatch(e, ScriptOp_Move)
  /\ Becomes(e, Write(ev[e], Operand(ev[e], 1), Reg(ev[e], Operand(ev[e], 2))))

EvalJump(e) ==
  /\ Dispatch(e, ScriptOp_Jump)
  /\ Becomes(e, Goto(ev[e], JumpTarget(ev[e].prog.code, ev[e].ip)))

\* A conditional jump: taken when 'taken' holds of the register.
JumpIf(s, taken) ==
  Goto(s, IF taken THEN JumpTarget(s.prog.code, s.ip) ELSE Next_ip(s))

EvalJumpIfTruthy(e) ==
  /\ Dispatch(e, ScriptOp_JumpIfTruthy)
  /\ Becomes(e, JumpIf(ev[e], script_truthy(Reg(ev[e], Operand(ev[e], 1)))))

EvalJumpIfFalsy(e) ==
  /\ Dispatch(e, ScriptOp_JumpIfFalsy)
  /\ Becomes(e, JumpIf(ev[e], script_falsy(Reg(ev[e], Operand(ev[e], 1)))))

EvalJumpIfNonNull(e) ==
  /\ Dispatch(e, ScriptOp_JumpIfNonNull)
  /\ Becomes(e, JumpIf(ev[e], val_type(Reg(ev[e], Operand(ev[e], 1))) # ScriptType_Null))

EvalValue(e) ==
  /\ Dispatch(e, ScriptOp_Value)
  /\ Becomes(e, Write(ev[e], Operand(ev[e], 1), ev[e].prog.literals[Operand(ev[e], 2) + 1]))

EvalValueNull(e) ==
  /\ Dispatch(e, ScriptOp_ValueNull)
  /\ Becomes(e, Write(ev[e], Operand(ev[e], 1), val_null))

EvalValueBool(e) ==
  /\ Dispatch(e, ScriptOp_ValueBool)
  /\ Becomes(e, Write(ev[e], Operand(ev[e], 1), val_bool(Operand(ev[e], 2) # 0)))

EvalMemLoad(e) ==
  /\ Dispatch(e, ScriptOp_MemLoad)
  /\ Becomes(e, Write(ev[e], Operand(ev[e], 1), ev[e].mem[U32At(ev[e].prog.code, ev[e].ip + 2)]))

EvalMemStore(e) ==
  /\ Dispatch(e, ScriptOp_MemStore)
  /\ Becomes(e, Goto([ev[e] EXCEPT !.mem[U32At(ev[e].prog.code, ev[e].ip + 2)] =
                                      Reg(ev[e], Operand(ev[e], 1))],
                     Next_ip(ev[e])))

\* The ScriptBinderCall of the Extern instruction the evaluation s is at:
\* the arguments are the registers r .. r+c-1 of the register file.
ExternCall(s) ==
  [regs |-> s.regs, args |-> Operand(s, 4), argCount |-> Operand(s, 5),
   panicHandler |-> HandlerIdle]

\* The native function of the Extern instruction, invoked.
ExternInvoke(s, ctx) == BinderCall(U16At(s.prog.code, s.ip + 2), ctx, ExternCall(s))

\* A raised panic unwinds to the anchor at the top of the evaluation, which
\* returns it; a returned value is stored in register d.
ExternDone(s, out) ==
  IF out.panicHandler.hasPanic
    THEN Abort(s, out.panicHandler.result)
    ELSE Write(s, Operand(s, 1), out.ret)

EvalExtern(e) ==
  /\ Dispatch(e, ScriptOp_Extern)
  /\ LET out == ExternInvoke(ev[e], bindCtx)
     IN  /\ ev' = [ev EXCEPT ![e] = ExternDone(ev[e], out)]
         /\ bindCtx' = out.ctx
  /\ UNCHANGED <<valVars, argVars>>

EvalAdd(e) ==
  /\ Dispatch(e, ScriptOp_Add)
  /\ \E ub \in UB :
       Becomes(e, Write(ev[e], Operand(ev[e], 1),
                        script_val_add(Reg(ev[e], Operand(ev[e], 1)),
                                       Reg(ev[e], Operand(ev[e], 2)), ub)))

Next ==
  \/ \E e \in DOMAIN ev : ProgValidate(e)
  \/ \E e \in DOMAIN ev : EvalLimit(e)
  \/ \E e \in DOMAIN ev : EvalFail(e)
  \/ \E e \in DOMAIN ev : EvalAssert(e)
  \/ \E e \in DOMAIN ev : EvalReturn(e)
  \/ \E e \in DOMAIN ev : EvalReturnNull(e)
  \/ \E e \in DOMAIN ev : EvalMove(e)
  \/ \E e \in DOMAIN ev : EvalJump(e)
  \/ \E e \in DOMAIN ev : EvalJumpIfTruthy(e)
  \/ \E e \in DOMAIN ev : EvalJumpIfFalsy(e)
  \/ \E e \in DOMAIN ev : EvalJumpIfNonNull(e)
  \/ \E e \in DOMAIN ev : EvalValue(e)
  \/ \E e \in DOMAIN ev : EvalValueNull(e)
  \/ \E e \in DOMAIN ev : EvalValueBool(e)
  \/ \E e \in DOMAIN ev : EvalMemLoad(e)
  \/ \E e \in DOMAIN ev : EvalMemStore(e)
  \/ \E e \in DOMAIN ev : EvalExtern(e)
  \/ \E e \in DOMAIN ev : EvalAdd(e)

Spec == Init /\ [][Next]_vars

\* script_prog_eval is a loop on the calling thread without suspension
\* points: an evaluation that can take a step takes it.
SpecFair == Spec /\ WF_vars(Next)

---------------------------------------------------------------------------
(* SpecPair: two evaluations, each with its own registers and memory, are  *)
(* interleaved instruction by instruction; they share the binder context. *)

\* flat_normals() is returned.
CodeReadFlatNormals == <<ScriptOp_Extern, 0, 1, 0, 0, 0, ScriptOp_Return, 0>>

\* The register is Null, so the jump skips the Fail; the Assert holds:
\* offsets 0 (4) 5 8 10.
CodeAssert ==
  <<ScriptOp_JumpIfFalsy, 0, 5, 0, ScriptOp_Fail, ScriptOp_ValueBool, 0, 1,
    ScriptOp_Assert, 0, ScriptOp_ReturnNull>>

PairCodes ==
  {CodeAddLiterals, CodeBranches, CodeFlatNormals, CodeReadFlatNormals, CodeMemory,
   CodeAssert, <<ScriptOp_Fail>>, <<ScriptOp_Jump, 0, 0>>, <<ScriptOp_Return, script_prog_regs>>}

PairPrograms ==
  {[code |-> code, literals |-> Literals, binderHash |-> BinderHash] : code \in PairCodes}

InitPair ==
  /\ ValIdle
  /\ ArgIdle
  /\ \E p \in PairPrograms, q \in PairPrograms : ev = <<EvalLoaded(p), EvalLoaded(q)>>
  /\ bindCtx \in Contexts

SpecPair == InitPair /\ [][Next]_vars

\* script_prog_validate and script_prog_eval as one sequential run: the
\* next state of the evaluation s and of the context, with the undefined
\* behaviour resolved as ub.
EvalStep(s, ctx, ub) ==
  LET op == ByteAt(s.prog.code, s.ip)
      same(t) == [s |-> t, ctx |-> ctx]
  IN  IF s.pc = "loaded"
        THEN same([s EXCEPT !.pc = IF script_prog_validate(s.prog, BinderHash)
                                     THEN "running" ELSE "invalid"])
      ELSE IF s.executedOps >= OpsMax
        THEN same([s EXCEPT
               !.pc = "done",
               !.res = Result(s.executedOps,
                              Panic("ExecutionLimitExceeded", 0, 0, ScriptType_Null), val_null)])
      ELSE CASE op = ScriptOp_Fail ->
                  same(Abort(s, Panic("ExecutionFailed", 0, 0, ScriptType_Null)))
             [] op = ScriptOp_Assert ->
                  same(IF script_falsy(Reg(s, Operand(s, 1)))
                         THEN Abort(s, Panic("AssertionFailed", 0, 0, ScriptType_Null))
                         ELSE Goto(s, Next_ip(s)))
             [] op = ScriptOp_Return -> same(Finish(s, Reg(s, Operand(s, 1))))
             [] op = ScriptOp_ReturnNull -> same(Finish(s, val_null))
             [] op = ScriptOp_Move -> same(Write(s, Operand(s, 1), Reg(s, Operand(s, 2))))
             [] op = ScriptOp_Jump -> same(Goto(s, JumpTarget(s.prog.code, s.ip)))
             [] op = ScriptOp_JumpIfTruthy ->
                  same(JumpIf(s, script_truthy(Reg(s, Operand(s, 1)))))
             [] op = ScriptOp_JumpIfFalsy ->
                  same(JumpIf(s, script_falsy(Reg(s, Operand(s, 1)))))
             [] op = ScriptOp_JumpIfNonNull ->
                  same(JumpIf(s, val_type(Reg(s, Operand(s, 1))) # ScriptType_Null))
             [] op = ScriptOp_Value ->
                  same(Write(s, Operand(s, 1), s.prog.literals[Operand(s, 2) + 1]))
             [] op = ScriptOp_ValueNull -> same(Write(s, Operand(s, 1), val_null))
             [] op = ScriptOp_ValueBool ->
                  same(Write(s, Operand(s, 1), val_bool(Operand(s, 2) # 0)))
             [] op = ScriptOp_MemLoad ->
                  same(Write(s, Operand(s, 1), s.mem[U32At(s.prog.code, s.ip + 2)]))
             [] op = ScriptOp_MemStore ->
                  same(Goto([s EXCEPT !.mem[U32At(s.prog.code, s.ip + 2)] =
                                         Reg(s, Operand(s, 1))],
                            Next_ip(s)))
             [] op = ScriptOp_Extern ->
                  LET out == ExternInvoke(s, ctx)
                  IN  [s |-> ExternDone(s, out), ctx |-> out.ctx]
             [] op = ScriptOp_Add ->
                  same(Write(s, Operand(s, 1),
                             script_val_add(Reg(s, Operand(s, 1)), Reg(s, Operand(s, 2)), ub)))

RECURSIVE RunAlone(_, _, _)
\* The evaluation s run to its end with nothing else running.
RunAlone(s, ctx, ub) ==
  IF s.pc \in {"done", "invalid"} THEN s
  ELSE RunAlone(EvalStep(s, ctx, ub).s, EvalStep(s, ctx, ub).ctx, ub)

---------------------------------------------------------------------------
(* Claims about the value operations (SpecVal). *)

\* The exact result clamped to [i32_min, i32_max].
Saturate(x) == IF x < i32_min THEN i32_min ELSE IF x > i32_max THEN i32_max ELSE x

BothNum == val_type(va) = ScriptType_Num /\ val_type(vb) = ScriptType_Num

ArithOps == {"add", "sub", "mul", "div", "mod"}

\* C1: add, sub and mul of two Nums return num(r) with r the exact result
\* clamped to [i32_min, i32_max]; overflow saturates in both directions.
C1_NumArithmeticSaturates ==
  BothNum =>
    /\ vop = "add" => vres = val_num(Saturate(val_as_num(va) + val_as_num(vb)))
    /\ vop = "sub" => vres = val_num(Saturate(val_as_num(va) - val_as_num(vb)))
    /\ vop = "mul" => vres = val_num(Saturate(val_as_num(va) * val_as_num(vb)))

\* The operand types an operation does not support at all.
Unsupported(op) ==
  {ScriptType_Null, ScriptType_Bool, ScriptType_Str, ScriptType_Id}
    \cup (IF op = "mod" THEN {ScriptType_NumRange} ELSE {})

\* The pairs of operands claim C2 speaks about.
C2_Covered ==
  \/ val_type(va) # val_type(vb)
  \/ val_type(va) = val_type(vb) /\ val_type(va) \in Unsupported(vop)

\* range * num and range / num.
RangeByNum ==
  /\ vop \in {"mul", "div"}
  /\ val_type(va) = ScriptType_NumRange
  /\ val_type(vb) = ScriptType_Num

\* C2 as stated: the five operations return Null for every pair of operands
\* whose types differ and for every pair of an unsupported type.
C2_MismatchGivesNull_Original ==
  (vop \in ArithOps /\ C2_Covered) => vres = val_null

\* C2 (amended): as stated, except that mul and div of a NumRange by a Num
\* (types differ) are supported operations and do not return Null for the
\* claim; every other differently-typed or unsupported pair gives Null.
C2_MismatchGivesNull ==
  (vop \in ArithOps /\ C2_Covered /\ ~RangeByNum) => vres = val_null

C2_Witness ==
  /\ vop = "div"
  /\ val_type(va) = ScriptType_Num
  /\ val_type(vb) = ScriptType_NumRange
  /\ vres = val_null

---------------------------------------------------------------------------
(* Claims about the argument binder (SpecArg). *)

Present == call.argCount > ain.i

Arg == ArgAt(call, ain.i)

Raised(panic) == ares.panicHandler.hasPanic /\ ares.panicHandler.result = panic

RaisedKind(kind) == ares.panicHandler.hasPanic /\ ares.panicHandler.result.kind = kind

Rets(value) == ~ares.panicHandler.hasPanic /\ ares.ret = value

Missing == Raised(Panic("ArgumentMissing", ain.i, 0, ScriptType_Null))

Mismatch(mask) == Raised(Panic("ArgumentTypeMismatch", ain.i, mask, val_type(Arg)))

OutOfRange == Raised(Panic("ArgumentOutOfRange", ain.i, 0, ScriptType_Null))

\* The ScriptArgNumRange a NumRange value stands for.
RangeOf(v) ==
  <<v.p, IF v.p + v.e >= i32_max THEN i32_max ELSE v.p + v.e>>

\* A required function of type 'type' whose result for a well-typed
\* argument is 'value'.
Required(type, value) ==
  /\ ~Present => Missing
  /\ (Present /\ val_type(Arg) # type) => Mismatch(script_mask(type))
  /\ (Present /\ val_type(Arg) = type) => Rets(value)

\* The missing and the mismatch half of a required function.
RequiredChecks(type) ==
  /\ ~Present => Missing
  /\ (Present /\ val_type(Arg) # type) => Mismatch(script_mask(type))

\* C3 as stated: the required functions raise ArgumentMissing for an absent
\* argument (whatever the register behind the arguments holds), else
\* ArgumentTypeMismatch for a wrong tag, else return the payload of args[i].
C3_RequiredArgs_Original ==
  /\ afn = "num" => Required(ScriptType_Num, Arg.p)
  /\ afn = "bool" => Required(ScriptType_Bool, Arg.p # 0)
  /\ afn = "str" => Required(ScriptType_Str, Arg.p)
  /\ afn = "id" => Required(ScriptType_Id, Arg.p)
  /\ afn = "enum" => Required(ScriptType_Str, Arg.p)

\* C3 (amended): as stated for num, bool, str and id; script_arg_enum makes
\* the same two checks and then returns the value of the enum entry the
\* string names, raising EnumInvalidEntry when it names none.
C3_RequiredArgs ==
  /\ afn = "num" => Required(ScriptType_Num, Arg.p)
  /\ afn = "bool" => Required(ScriptType_Bool, Arg.p # 0)
  /\ afn = "str" => Required(ScriptType_Str, Arg.p)
  /\ afn = "id" => Required(ScriptType_Id, Arg.p)
  /\ afn = "enum" =>
       /\ RequiredChecks(ScriptType_Str)
       /\ (Present /\ val_type(Arg) = ScriptType_Str /\ Arg.p \in EnumNames)
            => Rets(EnumValue(Arg.p))
       /\ (Present /\ val_type(Arg) = ScriptType_Str /\ Arg.p \notin EnumNames)
            => RaisedKind("EnumInvalidEntry")

\* An absent argument, with a register of another type behind the arguments.
C3_Witness ==
  /\ afn = "num"
  /\ ~Present
  /\ val_type(Arg) = ScriptType_Bool
  /\ Missing

\* An optional function of type 'type' whose result for a well-typed
\* argument is 'value'.
Optional(type, value) ==
  /\ (~Present \/ val_type(Arg) = ScriptType_Null) => Rets(ain.def)
  /\ (Present /\ val_type(Arg) = type) => Rets(value)
  /\ (Present /\ val_type(Arg) \notin {type, ScriptType_Null})
       => Mismatch(MaskOr(script_mask(type), script_mask_null))

OptionalChecks(type) ==
  /\ (~Present \/ val_type(Arg) = ScriptType_Null) => Rets(ain.def)
  /\ (Present /\ val_type(Arg) \notin {type, ScriptType_Null})
       => Mismatch(MaskOr(script_mask(type), script_mask_null))

\* C4 as stated: absent and Null give the default, the expected type gives
\* the payload, any other type raises ArgumentTypeMismatch (expected | null).
C4_OptionalArgs_Original ==
  /\ afn = "opt_num" => Optional(ScriptType_Num, Arg.p)
  /\ afn = "opt_num_clamped" => Optional(ScriptType_Num, Arg.p)
  /\ afn = "opt_num_range" => Optional(ScriptType_NumRange, RangeOf(Arg))
  /\ afn = "opt_bool" => Optional(ScriptType_Bool, Arg.p # 0)
  /\ afn = "opt_str" => Optional(ScriptType_Str, Arg.p)
  /\ afn = "opt_id" => Optional(ScriptType_Id, Arg.p)
  /\ afn = "opt_enum" => Optional(ScriptType_Str, Arg.p)

\* C4 (amended): as stated, except that opt_num_clamped returns a present
\* Num only when it is inside [min, max] and raises ArgumentOutOfRange
\* otherwise, and opt_enum returns the value of the enum entry a present Str
\* names and raises EnumInvalidEntry when it names none.
C4_OptionalArgs ==
  /\ afn = "opt_num" => Optional(ScriptType_Num, Arg.p)
  /\ afn = "opt_num_clamped" =>
       /\ OptionalChecks(ScriptType_Num)
       /\ (Present /\ val_type(Arg) = ScriptType_Num /\ ain.min <= Arg.p /\ Arg.p <= ain.max)
            => Rets(Arg.p)
       /\ (Present /\ val_type(Arg) = ScriptType_Num /\ ~(ain.min <= Arg.p /\ Arg.p <= ain.max))
            => OutOfRange
  /\ afn = "opt_num_range" => Optional(ScriptType_NumRange, RangeOf(Arg))
  /\ afn = "opt_bool" => Optional(ScriptType_Bool, Arg.p # 0)
  /\ afn = "opt_str" => Optional(ScriptType_Str, Arg.p)
  /\ afn = "opt_id" => Optional(ScriptType_Id, Arg.p)
  /\ afn = "opt_enum" =>
       /\ OptionalChecks(ScriptType_Str)
       /\ (Present /\ val_type(Arg) = ScriptType_Str /\ Arg.p \in EnumNames)
            => Rets(EnumValue(Arg.p))
       /\ (Present /\ val_type(Arg) = ScriptType_Str /\ Arg.p \notin EnumNames)
            => RaisedKind("EnumInvalidEntry")

\* A present Bool given to opt_num.
C4_Witness ==
  /\ afn = "opt_num"
  /\ Present
  /\ val_type(Arg) = ScriptType_Bool
  /\ Mismatch(MaskOr(script_mask_num, script_mask_null))

\* C5: script_arg_opt_any returns the default for an absent argument and
\* for a present Null argument, and the argument itself otherwise.
C5_OptAny ==
  afn = "opt_any" =>
    /\ (~Present \/ val_type(Arg) = ScriptType_Null) => Rets(ain.def)
    /\ (Present /\ val_type(Arg) # ScriptType_Null) => Rets(Arg)

\* A maybe function of type 'type' whose result for a well-typed argument
\* is 'value'.
Maybe(type, value) ==
  /\ ~ares.panicHandler.hasPanic
  /\ (Present /\ val_type(Arg) = type) => Rets(value)
  /\ ~(Present /\ val_type(Arg) = type) => Rets(ain.def)

\* C6 as stated: the maybe functions never raise; they return the payload of
\* a present argument of exactly the requested type, the default otherwise.
C6_MaybeArgs_Original ==
  /\ afn = "maybe_num" => Maybe(ScriptType_Num, Arg.p)
  /\ afn = "maybe_bool" => Maybe(ScriptType_Bool, Arg.p # 0)
  /\ afn = "maybe_str" => Maybe(ScriptType_Str, Arg.p)
  /\ afn = "maybe_id" => Maybe(ScriptType_Id, Arg.p)
  /\ afn = "maybe_enum" => Maybe(ScriptType_Str, Arg.p)

\* C6 (amended): as stated for num, bool, str and id; script_arg_maybe_enum
\* never raises either, returns the value of the enum entry a present Str
\* names, and the default in every other case, a Str naming no entry included.
C6_MaybeArgs ==
  /\ afn = "maybe_num" => Maybe(ScriptType_Num, Arg.p)
  /\ afn = "maybe_bool" => Maybe(ScriptType_Bool, Arg.p # 0)
  /\ afn = "maybe_str" => Maybe(ScriptType_Str, Arg.p)
  /\ afn = "maybe_id" => Maybe(ScriptType_Id, Arg.p)
  /\ afn = "maybe_enum" =>
       /\ ~ares.panicHandler.hasPanic
       /\ (Present /\ val_type(Arg) = ScriptType_Str /\ Arg.p \in EnumNames)
            => Rets(EnumValue(Arg.p))
       /\ ~(Present /\ val_type(Arg) = ScriptType_Str /\ Arg.p \in EnumNames)
            => Rets(ain.def)

\* A present Bool given to maybe_num yields the default.
C6_Witness ==
  /\ afn = "maybe_num"
  /\ Present
  /\ val_type(Arg) = ScriptType_Bool
  /\ Rets(ain.def)

InClamp == ain.min <= Arg.p /\ Arg.p <= ain.max

\* C7: script_arg_num_clamped returns a present Num inside [min, max] and
\* only that; a present Num outside raises ArgumentOutOfRange; the missing
\* and the type check come first; joint_parent of a mesh without joints
\* (min 0, max -1) raises ArgumentOutOfRange for every Num.
C7_NumClamped ==
  /\ afn = "num_clamped" =>
       /\ RequiredChecks(ScriptType_Num)
       /\ (Present /\ val_type(Arg) = ScriptType_Num /\ InClamp) => Rets(Arg.p)
       /\ (Present /\ val_type(Arg) = ScriptType_Num /\ ~InClamp) => OutOfRange
       /\ ~ares.panicHandler.hasPanic
            => (Present /\ val_type(Arg) = ScriptType_Num /\ InClamp)
  /\ afn = "joint_parent" =>
       /\ RequiredChecks(ScriptType_Num)
       /\ (ain.jointCount = 0 /\ Present /\ val_type(Arg) = ScriptType_Num) => OutOfRange

\* joint_parent(0) on a mesh without joints.
C7_Witness ==
  /\ afn = "joint_parent"
  /\ ain.jointCount = 0
  /\ Present
  /\ Arg = val_num(0)
  /\ OutOfRange

---------------------------------------------------------------------------
(* Claims about the evaluator (Spec, SpecFair). *)

\* The op-code of the instruction the evaluation s is at.
OpAt(s) == ByteAt(s.prog.code, s.ip)

\* The evaluation s is dispatched (it is running below the op-count limit)
\* and becomes t.
Steps(s, t) == s.pc = "running" /\ s.executedOps < OpsMax /\ t # s

\* The evaluation ended with the panic.
EndedWith(t, panic) == t.pc = "done" /\ t.res.panic = panic /\ t.res.val = val_null

\* The native function of the Extern instruction s is at raises.
ExternRaises(s) ==
  OpAt(s) = ScriptOp_Extern /\ ExternInvoke(s, bindCtx).panicHandler.hasPanic

\* C8: when the native function invoked by an Extern instruction raises a
\* panic, the evaluation ends at that instruction: the result carries
\* exactly the raised panic (ArgumentMissing with argIndex 0 for
\* joint_parent, which reads a required Num at index 0, called with zero
\* arguments), the instruction pointer, the registers and the memory are
\* the ones of the raise, and an evaluation that has ended takes no further
\* step.
C8_ExternPanicEndsEval ==
  [][\A e \in DOMAIN ev :
       LET s == ev[e]
           t == ev'[e]
       IN  /\ (Steps(s, t) /\ ExternRaises(s)) =>
                /\ EndedWith(t, ExternInvoke(s, bindCtx).panicHandler.result)
                /\ t.res.panic.kind # "None"
                /\ t.ip = s.ip /\ t.regs = s.regs /\ t.mem = s.mem
                /\ (U16At(s.prog.code, s.ip + 2) = 0 /\ Operand(s, 5) = 0) =>
                     t.res.panic = Panic("ArgumentMissing", 0, 0, ScriptType_Null)
           /\ s.pc = "done" => t = s]_vars

\* joint_parent called with zero arguments ended an evaluation that had
\* executed an instruction before it and has instructions behind it.
C8_Witness ==
  \E e \in DOMAIN ev :
    /\ ev[e].pc = "done"
    /\ OpAt(ev[e]) = ScriptOp_Extern
    /\ Operand(ev[e], 5) = 0
    /\ ev[e].res.panic = Panic("ArgumentMissing", 0, 0, ScriptType_Null)
    /\ ev[e].executedOps = 2
    /\ Next_ip(ev[e]) < Len(ev[e].prog.code)

Ended(s) == s.pc \in {"done", "invalid"}

LimitExceeded == Panic("ExecutionLimitExceeded", 0, 0, ScriptType_Null)

\* C9: every evaluation terminates (also the one of a program that jumps
\* backward forever), executedOps never exceeds the op-count limit, and a
\* run the limit stops (it is still running when executedOps has reached
\* the limit, so its next step is its last) returns the panic
\* ExecutionLimitExceeded.
C9_Terminates ==
  /\ <>(\A e \in DOMAIN ev : Ended(ev[e]))
  /\ [](\A e \in DOMAIN ev :
          /\ ev[e].executedOps <= OpsMax
          /\ ev[e].res.executedOps <= OpsMax)
  /\ [][\A e \in DOMAIN ev :
         (ev[e].pc = "running" /\ ev[e].executedOps = OpsMax /\ ev'[e] # ev[e]) =>
           (EndedWith(ev'[e], LimitExceeded) /\ ev'[e].res.executedOps = OpsMax)]_vars

\* The program that is one backward Jump to itself was stopped by the limit.
C9_Witness ==
  \E e \in DOMAIN ev :
    /\ ev[e].prog.code = <<ScriptOp_Jump, 0, 0>>
    /\ EndedWith(ev[e], LimitExceeded)
    /\ ev[e].res.executedOps = OpsMax

\* Null and the Bool false are the falsy values.
Falsy(v) == v = val_null \/ v = val_bool(FALSE)

\* C10: the instruction an evaluation ends at determines its result: Return
\* s gives no panic and the value of register s, ReturnNull no panic and
\* Null, Fail the panic ExecutionFailed, Assert on a falsy register the panic
\* AssertionFailed, and Assert on a truthy register continues with the next
\* instruction; a result without panic is one of Return or ReturnNull.
C10_EndDeterminesResult ==
  [][\A e \in DOMAIN ev :
       LET s == ev[e]
           t == ev'[e]
           ops == s.executedOps + 1
       IN  /\ (Steps(s, t) /\ OpAt(s) = ScriptOp_Return) =>
                /\ t.pc = "done"
                /\ t.res = Result(ops, PanicNone, Reg(s, Operand(s, 1)))
           /\ (Steps(s, t) /\ OpAt(s) = ScriptOp_ReturnNull) =>
                /\ t.pc = "done"
                /\ t.res = Result(ops, PanicNone, val_null)
           /\ (Steps(s, t) /\ OpAt(s) = ScriptOp_Fail) =>
                /\ EndedWith(t, Panic("ExecutionFailed", 0, 0, ScriptType_Null))
                /\ t.res.executedOps = ops
           /\ (Steps(s, t) /\ OpAt(s) = ScriptOp_Assert /\ Falsy(Reg(s, Operand(s, 1)))) =>
                /\ EndedWith(t, Panic("AssertionFailed", 0, 0, ScriptType_Null))
                /\ t.res.executedOps = ops
           /\ (Steps(s, t) /\ OpAt(s) = ScriptOp_Assert /\ ~Falsy(Reg(s, Operand(s, 1)))) =>
                /\ t.pc = "running"
                /\ t.ip = s.ip + SizeOpCode + SizeRegId
                /\ t.regs = s.regs /\ t.mem = s.mem
           /\ (t.pc = "done" /\ t.res.panic.kind = "None") =>
                OpAt(t) \in {ScriptOp_Return, ScriptOp_ReturnNull}
           /\ t.pc # "done" => t.res = Result(0, PanicNone, val_null)]_vars

\* An Assert on a truthy register continued and the Return behind it
\* returned the register.
C10_Witness ==
  \E e \in DOMAIN ev :
    /\ ev[e].prog.code = <<ScriptOp_ValueBool, 0, 1, ScriptOp_Assert, 0, ScriptOp_Return, 0>>
    /\ ev[e].pc = "done"
    /\ ev[e].res = Result(3, PanicNone, val_bool(TRUE))

\* The program Value r0 <- literal num(2); Value r1 <- literal num(3);
\* Add r0, r1; Return r0, compiled against the binder.
ProgAddLiterals ==
  [code |-> CodeAddLiterals, literals |-> Literals, binderHash |-> BinderHash]

\* C11: executedOps counts every dispatched instruction, the terminating
\* one included (every step of a running evaluation adds one and the result
\* carries the count), and the program Value r0 <- num(2); Value r1 <-
\* num(3); Add r0, r1; Return r0 evaluates to no panic, num(5) and
\* executedOps 4.
C11_CountsAndAdds ==
  /\ [](\A e \in DOMAIN ev :
          /\ ev[e].pc = "done" => ev[e].res.executedOps = ev[e].executedOps
          /\ (ev[e].prog = ProgAddLiterals /\ ev[e].pc = "done") =>
               ev[e].res = Result(4, PanicNone, val_num(5)))
  /\ [][\A e \in DOMAIN ev :
          Steps(ev[e], ev'[e]) => ev'[e].executedOps = ev[e].executedOps + 1]_vars

\* The program has returned.
C11_Witness ==
  \E e \in DOMAIN ev :
    /\ ev[e].prog = ProgAddLiterals
    /\ ev[e].pc = "done"
    /\ ev[e].res.val = val_num(5)
    /\ ev[e].executedOps = 4

\* The program of the evaluation was compiled against another binder.
Stale(s) == s.prog.binderHash # BinderHash

\* C12: script_prog_validate returns false for every program whose
\* binderHash differs from the hash of the binder, whatever its code; the
\* program is reported invalid without a panic and is never evaluated (no
\* instruction is executed, no register or memory is written).
C12_StaleProgramInvalid ==
  /\ [](\A e \in DOMAIN ev :
          Stale(ev[e]) =>
            /\ ~script_prog_validate(ev[e].prog, BinderHash)
            /\ ev[e].pc \in {"loaded", "invalid"}
            /\ ev[e].executedOps = 0
            /\ ev[e].res = Result(0, PanicNone, val_null)
            /\ ev[e].regs = RegsInit /\ ev[e].mem = MemInit /\ ev[e].ip = 0)
  /\ [][\A e \in DOMAIN ev :
          (Stale(ev[e]) /\ ev'[e] # ev[e]) =>
            (ev[e].pc = "loaded" /\ ev'[e] = [ev[e] EXCEPT !.pc = "invalid"])]_vars

\* A program whose code is valid was refused for its binderHash.
C12_Witness ==
  \E e \in DOMAIN ev :
    /\ Stale(ev[e])
    /\ ev[e].prog.code = CodeAddLiterals
    /\ ev[e].pc = "invalid"

\* The context the evaluations started with: no native function changes
\* the joints, and flatNormals starts false.
InitialCtx == MeshCtx(bindCtx.jointCount)

\* The program calls flat_normals with an argument: it writes the context.
WritesCtx(prog) ==
  \E ip \in InstrStarts(prog.code, 0) :
    /\ ByteAt(prog.code, ip) = ScriptOp_Extern
    /\ ip + OpSize(ScriptOp_Extern) <= Len(prog.code)
    /\ U16At(prog.code, ip + 2) = 1
    /\ ByteAt(prog.code, ip + 5) > 0

\* The evaluation ended as it ends when it runs alone: the same result,
\* registers and memory.
AsAlone(s) == \E ub \in UB : s = RunAlone(EvalLoaded(s.prog), InitialCtx, ub)

\* No evaluation changes a program, and a step of one evaluation leaves the
\* other evaluations alone.
ProgramsReadOnly ==
  [][/\ \A e \in DOMAIN ev : ev'[e].prog = ev[e].prog
     /\ \A e, x \in DOMAIN ev : (ev'[e] # ev[e] /\ x # e) => ev'[x] = ev[x]]_vars

---------------------------------------------------------------------------
(* Claims about ranges, comparison and extraction (SpecVal). *)

\* C14: for i32 min <= max, script_val_num_range_min / _max and
\* script_get_num_range_min / _max of script_num_range_from_to(min, max)
\* are exactly min and max; for min > max the range is the one of
\* script_num_range_from_to(max, min).
C14_RangeRoundTrip ==
  (vop = "range_from_to" /\ BothNum) =>
    LET min == val_as_num(va)
        max == val_as_num(vb)
    IN  /\ min <= max =>
             /\ script_val_num_range_min(vres) = val_num(min)
             /\ script_val_num_range_max(vres) = val_num(max)
             /\ \A f \in I32 :
                  /\ script_get_num_range_min(vres, f) = min
                  /\ script_get_num_range_max(vres, f) = max
        /\ min > max => vres \in {script_num_range_from_to(max, min, ub) : ub \in UB}

\* The NumRange value holding [min, max]: max saturated at i32 max.
RangeMin(v) == val_as_num_range_base(v)

RangeMax(v) ==
  IF val_as_num_range_base(v) + val_as_num_range_extent(v) >= i32_max
    THEN i32_max
    ELSE val_as_num_range_base(v) + val_as_num_range_extent(v)

\* C15: script_val_neg of a NumRange representing [min, max] returns the
\* NumRange representing [-max, -min].
C15_NegRange ==
  (vop = "neg" /\ val_type(va) = ScriptType_NumRange) =>
    /\ val_type(vres) = ScriptType_NumRange
    /\ RangeMin(vres) = -RangeMax(va)
    /\ RangeMax(vres) = -RangeMin(va)

Abs(x) == IF x < 0 THEN -x ELSE x

\* C16: for all i32 a and b # 0, script_val_mod(num(a), num(b)) is num(r)
\* with r the truncating remainder a - b * trunc(a / b): |r| < |b| and r is
\* zero or has the sign of a.
C16_ModTruncates ==
  (vop = "mod" /\ BothNum /\ val_as_num(vb) # 0) =>
    LET a == val_as_num(va)
        b == val_as_num(vb)
        r == a - b * TruncDiv(a, b)
    IN  /\ vres = val_num(r)
        /\ Abs(r) < Abs(b)
        /\ r = 0 \/ (r < 0) = (a < 0)

\* C17: a value built by the constructor of type T has script_type T, and
\* every extraction function returns the stored payload when the value has
\* the function's type and its fallback otherwise, for every fallback;
\* extraction always returns.
C17_Extraction ==
  vop = "get" =>
    /\ va = val_null => vres.type = ScriptType_Null
    /\ \A n \in I32 :
         va = val_num(n) =>
           /\ vres.type = ScriptType_Num
           /\ vres.num = n
    /\ \A b \in I32, e \in U16 :
         va = val_num_range(b, e) =>
           /\ vres.type = ScriptType_NumRange
           /\ vres.base = b /\ vres.extent = e
    /\ \A b \in BOOLEAN :
         va = val_bool(b) =>
           /\ vres.type = ScriptType_Bool
           /\ vres.bool = b
    /\ \A h \in StrHashes :
         va = val_str(h) =>
           /\ vres.type = ScriptType_Str
           /\ vres.str = h
    /\ \A i \in IdValues :
         va = val_id(i) =>
           /\ vres.type = ScriptType_Id
           /\ vres.id = i
    /\ vres.type # ScriptType_Num => vres.num = vres.f.num
    /\ vres.type # ScriptType_NumRange =>
         (vres.base = vres.f.base /\ vres.extent = vres.f.extent)
    /\ vres.type # ScriptType_Bool => vres.bool = vres.f.bool
    /\ vres.type # ScriptType_Str => vres.str = vres.f.str
    /\ vres.type # ScriptType_Id => vres.id = vres.f.id

\* The extraction functions applied to a Bool: script_get_bool returned
\* the payload, which is not its fallback, and script_get_num its fallback.
C17_Witness ==
  /\ vop = "get"
  /\ va = val_bool(TRUE)
  /\ vres.bool = TRUE /\ vres.f.bool = FALSE
  /\ vres.num = 6

\* C18: values with different tags are neither equal, less nor greater; a
\* value is equal to itself and neither less nor greater than itself; and
\* script_val_less(a, b) is script_val_greater(b, a).
C18_ComparisonFollowsTag ==
  /\ (vop \in {"equal", "less", "greater"} /\ script_type(va) # script_type(vb)) =>
       vres = FALSE
  /\ (vop = "equal" /\ va = vb) => vres = TRUE
  /\ (vop \in {"less", "greater"} /\ va = vb) => vres = FALSE
  /\ vop = "less" => vres = script_val_greater(vb, va)
  /\ vop = "greater" => vres = script_val_less(vb, va)

\* A Num compared as less with a greater Num: the tags agree and the result
\* is true.
C18_Witness ==
  /\ vop = "less"
  /\ script_type(va) = ScriptType_Num /\ script_type(vb) = ScriptType_Num
  /\ val_as_num(va) < val_as_num(vb)
  /\ vres = TRUE

\* Two NumRange values are equal under script_val_equal exactly when their
\* base and their extent are both equal, whatever their saturated max.
C19_EqualIffBaseAndExtent ==
  (vop = "equal" /\ va \in NumRanges /\ vb \in NumRanges) =>
    (vres = (/\ val_as_num_range_base(va) = val_as_num_range_base(vb)
             /\ val_as_num_range_extent(va) = val_as_num_range_extent(vb)))

\* script_num_range_from_to(a, b) and script_num_range_from_to(b, a) both
\* return and are equal.
C19_FromToSymmetric ==
  vop = "from_to_swap" =>
    /\ vres.ab # Crashed
    /\ vres.ba # Crashed
    /\ script_val_equal(vres.ab, vres.ba)

\* C19: two NumRange values are equal iff their base and their extent are
\* both equal, so ranges whose (base, extent) differ are unequal even when
\* their saturated [min, max] agree, and script_num_range_from_to(a, b)
\* equals script_num_range_from_to(b, a) for all i32 a and b.
C19_RangeEquality ==
  /\ C19_EqualIffBaseAndExtent
  /\ C19_FromToSymmetric

\* The bounds of a NumRange as script_val_num_range_min and
\* script_val_num_range_max report them.
ReportedMin(v) == val_as_num(script_val_num_range_min(v))

ReportedMax(v) == val_as_num(script_val_num_range_max(v))

\* C20: for NumRange values a and b, script_val_less(a, b) holds iff
\* min(a) < min(b) and max(a) < max(b), and script_val_greater(a, b) iff
\* min(a) > min(b) and max(a) > max(b), with min and max as reported by
\* script_val_num_range_min and script_val_num_range_max.
C20_RangeOrder ==
  (va \in NumRanges /\ vb \in NumRanges) =>
    /\ vop = "less" =>
         (vres = (/\ ReportedMin(va) < ReportedMin(vb)
                  /\ ReportedMax(va) < ReportedMax(vb)))
    /\ vop = "greater" =>
         (vres = (/\ ReportedMin(va) > ReportedMin(vb)
                  /\ ReportedMax(va) > ReportedMax(vb)))

\* The same for ranges whose base + extent does not pass i32 max.
C20_RangeOrder_Unsaturated ==
  (/\ va \in NumRanges /\ vb \in NumRanges
   /\ val_as_num_range_base(va) + val_as_num_range_extent(va) <= i32_max
   /\ val_as_num_range_base(vb) + val_as_num_range_extent(vb) <= i32_max) =>
    /\ vop = "less" =>
         (vres = (/\ ReportedMin(va) < ReportedMin(vb)
                  /\ ReportedMax(va) < ReportedMax(vb)))
    /\ vop = "greater" =>
         (vres = (/\ ReportedMin(va) > ReportedMin(vb)
                  /\ ReportedMax(va) > ReportedMax(vb)))

\* C21: script_val_contains(v, range) is Null when range is not a NumRange
\* or v is Null, Bool, Str or Id; for a Num v it is Bool(min <= v <= max);
\* for a NumRange v it is Bool(min <= vMin and vMax <= max), with the bounds
\* of range and v as reported (max saturated at i32 max).
C21_Contains ==
  vop = "contains" =>
    /\ vb \notin NumRanges => vres = val_null
    /\ (vb \in NumRanges /\ va \in {val_null} \cup Bools \cup Strs \cup Ids) =>
         vres = val_null
    /\ (vb \in NumRanges /\ va \in Nums) =>
         vres = val_bool(ReportedMin(vb) <= val_as_num(va) /\ val_as_num(va) <= ReportedMax(vb))
    /\ (vb \in NumRanges /\ va \in NumRanges) =>
         vres = val_bool(ReportedMin(vb) <= ReportedMin(va) /\ ReportedMax(va) <= ReportedMax(vb))

\* A Num at the upper bound of the range is contained.
C21_Witness ==
  /\ vop = "contains"
  /\ va \in Nums /\ vb \in NumRanges
  /\ val_as_num_range_extent(vb) > 0
  /\ val_as_num(va) = ReportedMax(vb)
  /\ vres = val_bool(TRUE)

\* C22: script_truthy(v) is false exactly for Null and Bool(false) and true
\* for every other value, script_falsy(v) is its negation, and
\* script_val_inv(v) is Bool(!script_truthy(v)).
C22_Truthiness ==
  vop = "truth" =>
    /\ vres.truthy \in BOOLEAN
    /\ vres.truthy = (va \notin {val_null, val_bool(FALSE)})
    /\ vres.falsy = ~vres.truthy
    /\ vres.inv = val_bool(~vres.truthy)

\* num(0) is truthy, not falsy, and its inverse is Bool(false).
C22_Witness ==
  /\ vop = "truth"
  /\ va = val_num(0)
  /\ vres.truthy /\ ~vres.falsy
  /\ vres.inv = val_bool(FALSE)

\* C23: for every u64 id, script_id_or_null(id) is Null iff id == 0, and
\* otherwise an Id value that script_val_valid accepts and whose
\* script_get_id is non-zero.
C23_IdNeverZero ==
  vop = "id_or_null" =>
    /\ (vres.val = val_null) <=> (vres.id = 0)
    /\ vres.id # 0 =>
         /\ script_type(vres.val) = ScriptType_Id
         /\ script_val_valid(vres.val)
         /\ script_get_id(vres.val, 0) # 0

\* The same for the ids that fit the payload (u56).
C23_IdNeverZero_InPayload ==
  (vop = "id_or_null" /\ vres.id < 2 ^ IdBits) =>
    /\ (vres.val = val_null) <=> (vres.id = 0)
    /\ vres.id # 0 =>
         /\ script_type(vres.val) = ScriptType_Id
         /\ script_val_valid(vres.val)
         /\ script_get_id(vres.val, 0) = vres.id

\* C24: for every intrinsic the count of always reached arguments is at
\* most the argument count; it is 1 for Select, NullCoalescing, LogicAnd
\* and LogicOr (of 3, 2, 2, 2), 2 for Loop (of 4) and the argument count
\* for every other intrinsic; both are defined for every intrinsic.
C24_AlwaysReached ==
  vop = "intrinsic" =>
    /\ vres.count \in 0 .. 4
    /\ vres.reached \in 0 .. vres.count
    /\ vres.i = ScriptIntrinsic_Select => (vres.reached = 1 /\ vres.count = 3)
    /\ vres.i \in {ScriptIntrinsic_NullCoalescing, ScriptIntrinsic_LogicAnd,
                   ScriptIntrinsic_LogicOr} => (vres.reached = 1 /\ vres.count = 2)
    /\ vres.i = ScriptIntrinsic_Loop => (vres.reached = 2 /\ vres.count = 4)
    /\ vres.i \notin {ScriptIntrinsic_Select, ScriptIntrinsic_NullCoalescing,
                      ScriptIntrinsic_LogicAnd, ScriptIntrinsic_LogicOr,
                      ScriptIntrinsic_Loop} => vres.reached = vres.count

\* The counts of Loop: 2 of its 4 arguments are always reached.
C24_Witness ==
  /\ vop = "intrinsic"
  /\ vres.i = ScriptIntrinsic_Loop
  /\ vres.reached = 2 /\ vres.count = 4

\* C25: dividing or taking the modulo of a Num by num(0) does not crash: it
\* completes with an error channel, which for script_val_div and
\* script_val_mod (they take no panic handler) is the Null value.
C25_DivModByZero ==
  (vop \in {"div", "mod"} /\ va \in Nums /\ vb = val_num(0)) =>
    /\ vres # Crashed
    /\ vres = val_null

\* Division and modulo of a Num complete with a Num whenever the divisor is
\* not zero and the operands are not (i32 min, -1) under modulo.
C25_DivModOtherwise ==
  (/\ vop \in {"div", "mod"} /\ va \in Nums /\ vb \in Nums
   /\ vb # val_num(0)
   /\ ~(vop = "mod" /\ va = val_num(i32_min) /\ vb = val_num(-1))) =>
    vres \in Nums

\* The end of a NumRange before saturation: base + extent.
RangeEnd(v) == val_as_num_range_base(v) + val_as_num_range_extent(v)

\* The range the claim of component-wise arithmetic names, for exact sums
\* lo and hi of the bounds.
ClampedRange(lo, hi) ==
  {script_num_range_from_to(val_clamp_to_i32(lo), val_clamp_to_i32(hi), ub) : ub \in UB}

\* C26: for NumRange a and b, script_val_add(a, b) is
\* script_num_range_from_to(clamp(aMin + bMin), clamp(aMax + bMax)) and
\* script_val_sub(a, b) is
\* script_num_range_from_to(clamp(aMin - bMin), clamp(aMax - bMax)), the
\* sums and differences being exact.
C26_RangeArithmetic ==
  (va \in NumRanges /\ vb \in NumRanges) =>
    /\ vop = "add" =>
         vres \in ClampedRange(RangeMin(va) + RangeMin(vb), RangeEnd(va) + RangeEnd(vb))
    /\ vop = "sub" =>
         vres \in ClampedRange(RangeMin(va) - RangeMin(vb), RangeEnd(va) - RangeEnd(vb))

\* The same for ranges whose bases add and subtract within i32.
C26_RangeArithmetic_InRange ==
  (va \in NumRanges /\ vb \in NumRanges) =>
    /\ (vop = "add" /\ RangeMin(va) + RangeMin(vb) \in I32) =>
         vres \in ClampedRange(RangeMin(va) + RangeMin(vb), RangeEnd(va) + RangeEnd(vb))
    /\ (vop = "sub" /\ RangeMin(va) - RangeMin(vb) \in I32) =>
         vres \in ClampedRange(RangeMin(va) - RangeMin(vb), RangeEnd(va) - RangeEnd(vb))

---------------------------------------------------------------------------
(* Claims about shifted arguments (SpecArg). *)

\* The argument j of the call as it was made: the registers are never
\* written and the call starts at the first of them.
OriginalArg(j) == call.regs[j + 1]

\* The type and the payload a required function reads.
ReadType ==
  CASE afn = "num" -> ScriptType_Num
    [] afn = "bool" -> ScriptType_Bool
    [] afn = "str" -> ScriptType_Str
    [] afn = "id" -> ScriptType_Id

ReadPayload(v) == IF afn = "bool" THEN val_as_bool(v) ELSE v.p

\* A step of script_arg_shift: one argument less, every former argument
\* k + 1 is argument k, no register and no handler changed.
ShiftStep ==
  call' # call =>
    /\ call.argCount > 0
    /\ call'.argCount = call.argCount - 1
    /\ call'.args = call.args + 1
    /\ call'.regs = call.regs
    /\ call'.panicHandler = call.panicHandler
    /\ \A k \in 0 .. (call'.argCount - 1) : ArgAt(call', k) = ArgAt(call, k + 1)

\* A read after call.args shifts: index i reads the original argument
\* i + call.args, and an index at or past the remaining count is missing.
ShiftedRead ==
  afn \in {"num", "bool", "str", "id"} =>
    LET o == OriginalArg(ain.i + call.args)
    IN  /\ ain.i >= call.argCount => Missing
        /\ (ain.i < call.argCount /\ val_type(o) = ReadType) => Rets(ReadPayload(o))
        /\ (ain.i < call.argCount /\ val_type(o) # ReadType) =>
             Raised(Panic("ArgumentTypeMismatch", ain.i, script_mask(ReadType), val_type(o)))

\* C27: script_arg_shift on a call with arguments reduces argCount by one
\* and makes every former argument k + 1 the new argument k without
\* changing a value or the panic handler; after n shifts script_arg_*(call,
\* i) reads the original argument i + n and an index i >= N - n is missing.
C27_Shift ==
  /\ [][ShiftStep]_vars
  /\ [](call.args + call.argCount <= MaxArgs)
  /\ []ShiftedRead

\* After one shift script_arg_num(call, 0) returned the second argument of
\* the call, which differs from the first.
C27_Witness ==
  /\ afn = "num"
  /\ call.args = 1 /\ ain.i = 0
  /\ call.argCount > 0
  /\ Rets(OriginalArg(1).p)
  /\ OriginalArg(0) # OriginalArg(1)

---------------------------------------------------------------------------
(* Claims about the instruction pointer and the operands (Spec). *)

\* The instruction the evaluation s is at is well-formed: it starts at an
\* instruction boundary, lies inside the code stream, names registers below
\* script_prog_regs only (Extern: the whole window r .. r + c - 1) and a
\* literal of the pool.
AtInstruction(s) ==
  LET code == s.prog.code
  IN  /\ s.ip \in InstrStarts(code, 0)
      /\ s.ip < Len(code)
      /\ s.ip + OpSize(ByteAt(code, s.ip)) <= Len(code)
      /\ \A r \in InstrRegs(code, s.ip) : r < script_prog_regs
      /\ ByteAt(code, s.ip) = ScriptOp_Value => ByteAt(code, s.ip + 2) < Len(s.prog.literals)

\* C28: for every program script_prog_validate accepts, at every step of
\* the evaluation the instruction pointer is at the first byte of an
\* instruction inside the code stream, every register operand is below 38
\* (the window of Extern included) and every literal index is inside the
\* literal pool.
C28_OperandsInBounds ==
  \A e \in DOMAIN ev :
    /\ ev[e].pc = "running" => script_prog_validate(ev[e].prog, BinderHash)
    /\ (ev[e].pc \in {"running", "done"} /\ script_prog_validate(ev[e].prog, BinderHash)) =>
         AtInstruction(ev[e])

\* An evaluation that jumped or advanced is at an Extern instruction with a
\* window of one register.
C28_Witness ==
  \E e \in DOMAIN ev :
    /\ ev[e].pc = "running"
    /\ ev[e].ip > 0 /\ ev[e].executedOps > 0
    /\ ByteAt(ev[e].prog.code, ev[e].ip) = ScriptOp_Extern
    /\ ByteAt(ev[e].prog.code, ev[e].ip + 5) = 1

---------------------------------------------------------------------------
(* Claims about overflow in the range constructor and the unary          *)
(* operations (SpecVal).                                                   *)

\* The smaller and the larger of two numbers.
Smaller(a, b) == IF a < b THEN a ELSE b

Larger(a, b) == IF a < b THEN b ELSE a

\* C29: script_num_range_from_to is total over i32 x i32: its assertion
\* 'extent >= 0' holds and the result is the NumRange with the smaller
\* input as base and the smaller of (larger - smaller) and u16 max as
\* extent.
C29_FromToTotal ==
  (vop = "range_from_to" /\ BothNum) =>
    LET lo == Smaller(val_as_num(va), val_as_num(vb))
        hi == Larger(val_as_num(va), val_as_num(vb))
    IN  /\ vres # Crashed
        /\ vres = val_num_range(lo, Smaller(hi - lo, u16_max))

\* The same for inputs no more than i32 max apart.
C29_FromToTotal_NoOverflow ==
  (vop = "range_from_to" /\ BothNum) =>
    LET lo == Smaller(val_as_num(va), val_as_num(vb))
        hi == Larger(val_as_num(va), val_as_num(vb))
    IN  hi - lo <= i32_max =>
          /\ vres # Crashed
          /\ vres = val_num_range(lo, Smaller(hi - lo, u16_max))

\* C30: for every i32 n, script_val_neg(num(n)) is num(clamp(-n)) and
\* script_val_abs(num(n)) is num(clamp(|n|)): neg(num(i32 min)) is
\* num(i32 max) and script_val_abs never returns a negative Num.
C30_UnarySaturates ==
  va \in Nums =>
    /\ vop = "neg" => vres = val_num(val_clamp_to_i32(-val_as_num(va)))
    /\ vop = "abs" =>
         /\ vres = val_num(val_clamp_to_i32(Abs(val_as_num(va))))
         /\ val_as_num(vres) >= 0

\* The same for every Num but i32 min.
C30_UnarySaturates_AboveMin ==
  (va \in Nums /\ va # val_num(i32_min)) =>
    /\ vop = "neg" => vres = val_num(val_clamp_to_i32(-val_as_num(va)))
    /\ vop = "abs" =>
         /\ vres = val_num(val_clamp_to_i32(Abs(val_as_num(va))))
         /\ val_as_num(vres) >= 0

====
